---- MODULE Spec2Model ----
(***************************************************************************)
(* Chat-application backend: credential subsystem (password hashing,       *)
(* token issuance), the user identity store and the request router.        *)
(*                                                                         *)
(* Strings whose characters matter (stored digests) are sequences of       *)
(* one-character strings; byte buffers are sequences of 0..255.            *)
(* Names that a TypeScript module shares with another module carry the     *)
(* module as a prefix: hashPassword / verifyPassword are the registration  *)
(* module's helpers, login_hashPassword / login_verifyPassword the login   *)
(* module's.                                                               *)
(***************************************************************************)
EXTENDS Integers, Sequences, FiniteSets, TLC

VARIABLES
    users,          \* usersTable rows, in insertion order
    users_id_seq,   \* the serial behind usersTable.id
    nowMs,          \* wall clock, milliseconds (Date.now(), defaultNow())
    jwtSecretEnv,   \* process.env['JWT_SECRET'] ("" when unset)
    drawn,          \* outputs randomBytes has produced so far
    issued,         \* history: every token handed out, with its issue time
    result,         \* outcome of the last handler call
    hashed,         \* history: every digest a hashPassword call produced
    hcall,          \* outcome of the last direct hashPassword/verifyPassword call
    chat_rooms,             \* chatRoomsTable rows
    chat_rooms_id_seq,      \* the serial behind chatRoomsTable.id
    room_members,           \* roomMembersTable rows
    room_members_id_seq,    \* the serial behind roomMembersTable.id
    messages,               \* messagesTable rows
    messages_id_seq,        \* the serial behind messagesTable.id
    req,            \* the last request the router served
    inflight        \* the handler calls in progress: each one's position

chatVars == <<chat_rooms, chat_rooms_id_seq, room_members, room_members_id_seq,
              messages, messages_id_seq>>

vars == <<users, users_id_seq, nowMs, jwtSecretEnv, drawn, issued, result,
          hashed, hcall, chatVars, req, inflight>>

-----------------------------------------------------------------------------
(* Bounds *)

\* length of the random salt in bytes (the code draws 32)
SaltLen == 2
\* length of the derived key in bytes (both modules ask pbkdf2Sync for 64)
KeyLen == 8
\* number of direct hashPassword calls in one behaviour
MaxHashed == 2
\* number of clock ticks in one behaviour
MaxTicks == 2
\* rows the users table may hold
MaxUsers == 2
\* tokens recorded in the issue history
MaxIssued == 2

\* byte values the random source yields in the model
ByteChoices == {10, 127, 243}

PasswordList == <<"password123", "password456">>
Passwords == {PasswordList[i] : i \in 1..Len(PasswordList)}

-----------------------------------------------------------------------------
(* Encodings: Buffer.toString('hex'), Buffer.from(s, 'hex'), UTF-8,        *)
(* String.prototype.split                                                  *)

HexDigits == <<"0","1","2","3","4","5","6","7","8","9","a","b","c","d","e","f">>
UpperHex == <<"A","B","C","D","E","F">>

\* the value of `undefined`, kept apart from every string
Undefined == <<"undefined">>

HexChars == {HexDigits[i] : i \in 1..16} \cup {UpperHex[i] : i \in 1..6}

IsHexChar(c) == c \in HexChars

\* the value of one hexadecimal digit, either case
HexValue ==
    [c \in HexChars |->
        IF \E i \in 1..16 : HexDigits[i] = c
        THEN (CHOOSE i \in 1..16 : HexDigits[i] = c) - 1
        ELSE (CHOOSE i \in 1..6 : UpperHex[i] = c) + 9]

HexVal(c) == HexValue[c]

\* buf.toString('hex'): two lower-case digits per byte
ToHex(bytes) ==
    [i \in 1..(2 * Len(bytes)) |->
        IF i % 2 = 1 THEN HexDigits[(bytes[(i + 1) \div 2] \div 16) + 1]
                     ELSE HexDigits[(bytes[i \div 2] % 16) + 1]]

\* Buffer.from(s, 'hex'): decodes pairs of hex digits and stops at the first
\* pair that is not hexadecimal; an odd trailing digit is dropped
HexPrefixPairs(s) ==
    LET bad == {k \in 1..(Len(s) \div 2) :
                    ~(IsHexChar(s[2 * k - 1]) /\ IsHexChar(s[2 * k]))}
    IN  IF bad = {} THEN Len(s) \div 2
        ELSE (CHOOSE k \in bad : \A j \in bad : k <= j) - 1

BufferFromHex(s) ==
    [k \in 1..HexPrefixPairs(s) |-> 16 * HexVal(s[2 * k - 1]) + HexVal(s[2 * k])]

\* the UTF-8 bytes of a string (all characters used are ASCII)
Alphabet == HexChars \cup {":", "x", "z"}

AsciiTable ==
    [c \in Alphabet |->
        IF \E i \in 1..10 : HexDigits[i] = c
        THEN 47 + (CHOOSE i \in 1..10 : HexDigits[i] = c)
        ELSE IF \E i \in 11..16 : HexDigits[i] = c
        THEN 86 + (CHOOSE i \in 11..16 : HexDigits[i] = c)
        ELSE IF \E i \in 1..6 : UpperHex[i] = c
        THEN 64 + (CHOOSE i \in 1..6 : UpperHex[i] = c)
        ELSE IF c = ":" THEN 58
        ELSE IF c = "x" THEN 120
        ELSE 122]

AsciiCode(c) == AsciiTable[c]

Utf8Bytes(s) == [i \in 1..Len(s) |-> AsciiCode(s[i])]

\* s.split(':'): every ':' separates two parts; "" gives one empty part
Split(s) ==
    LET D == {i \in 1..Len(s) : s[i] = ":"}
        pos(k) == IF k = 0 THEN 0
                  ELSE IF k = Cardinality(D) + 1 THEN Len(s) + 1
                  ELSE CHOOSE i \in D : Cardinality({j \in D : j <= i}) = k
    IN  [k \in 1..(Cardinality(D) + 1) |-> SubSeq(s, pos(k - 1) + 1, pos(k) - 1)]

\* const [a, b] = parts: a missing element is undefined
Part(parts, k) == IF k <= Len(parts) THEN parts[k] ELSE Undefined

\* JavaScript falsiness of a string-or-undefined value
Falsy(v) == v = Undefined \/ v = <<>>

-----------------------------------------------------------------------------
(* crypto.pbkdf2Sync and crypto.randomBytes                                *)

PwCode(password) == CHOOSE i \in 1..Len(PasswordList) : PasswordList[i] = password

\* pbkdf2Sync(password, salt, iterations, keylen, 'sha512') as an ideal
\* collision-free function: the keylen output bytes determine the password,
\* the iteration count and the salt bytes
Pbkdf2(password, saltBytes, iterations, keylen) ==
    LET n == Len(saltBytes)
    IN  [i \in 1..keylen |->
            IF i = 1 THEN PwCode(password)
            ELSE IF i = 2 THEN (iterations \div 10000) % 256
            ELSE IF i = 3 THEN n % 256
            ELSE IF i - 3 <= n THEN saltBytes[i - 3]
            ELSE 0]

\* randomBytes(n): the values the random source produces in the model, n bytes
\* each
RandomBytes(n) == {[i \in 1..n |-> IF i = 1 THEN b ELSE 255 - b] : b \in ByteChoices}

\* a secure random source does not repeat an output it has already given
FreshBytes(n) == RandomBytes(n) \ drawn

-----------------------------------------------------------------------------
(* Registration module: hashPassword, verifyPassword                       *)

\* hashPassword with one salt for every call
hashPassword_fixedSalt(password, rnd) ==
    LET salt == ToHex([i \in 1..SaltLen |-> 0])
        hash == ToHex(Pbkdf2(password, Utf8Bytes(salt), 10000, KeyLen))
    IN  salt \o <<":">> \o hash

\* hashPassword(password); rnd is what randomBytes(32) returned
hashPassword(password, rnd) ==
    LET salt == ToHex(rnd)
        hash == ToHex(Pbkdf2(password, Utf8Bytes(salt), 10000, KeyLen))
    IN  salt \o <<":">> \o hash

verifyPassword(password, hashedPassword) ==
    LET parts == Split(hashedPassword)
        salt == Part(parts, 1)
        hash == Part(parts, 2)
        verifyHash == ToHex(Pbkdf2(password, Utf8Bytes(salt), 10000, KeyLen))
    IN  hash = verifyHash

\* what a comparison of two values did: whether their lengths were equal,
\* that length, and how many positions it examined
NoComparison == [reached |-> FALSE, equalLength |-> FALSE, length |-> 0,
                 examined |-> 0]

\* the first position where a and b (of equal length) differ, Len(a) + 1
\* when they are equal
FirstMismatch(a, b) ==
    LET D == {i \in 1..Len(a) : a[i] # b[i]}
    IN  IF D = {} THEN Len(a) + 1 ELSE CHOOSE i \in D : \A j \in D : i <= j

\* a === b on a string-or-undefined a and a string b: values of different
\* type or length are unequal at once; equal-length strings are compared
\* character by character up to the first difference
StrictEquals_comparison(a, b) ==
    IF a = Undefined \/ Len(a) # Len(b)
    THEN [reached |-> TRUE, equalLength |-> FALSE, length |-> 0, examined |-> 0]
    ELSE LET first == FirstMismatch(a, b)
         IN  [reached |-> TRUE, equalLength |-> TRUE, length |-> Len(a),
              examined |-> IF first > Len(a) THEN Len(a) ELSE first]

\* the comparison verifyPassword makes: hash === verifyHash
verifyPassword_comparison(password, hashedPassword) ==
    LET parts == Split(hashedPassword)
        salt == Part(parts, 1)
        hash == Part(parts, 2)
        verifyHash == ToHex(Pbkdf2(password, Utf8Bytes(salt), 10000, KeyLen))
    IN  StrictEquals_comparison(hash, verifyHash)

-----------------------------------------------------------------------------
(* Login module: hashPassword, verifyPassword                              *)

\* hashPassword(password, salt?) taking the given salt's characters as the
\* salt bytes instead of decoding them
login_hashPassword_textSalt(password, salt, rnd) ==
    LET saltBuffer == IF ~Falsy(salt) THEN Utf8Bytes(salt) ELSE rnd
        hash == Pbkdf2(password, saltBuffer, 100000, KeyLen)
    IN  [hash |-> ToHex(hash), salt |-> ToHex(saltBuffer)]

\* hashPassword(password, salt?); rnd is what randomBytes(32) would return
login_hashPassword(password, salt, rnd) ==
    LET saltBuffer == IF ~Falsy(salt) THEN BufferFromHex(salt) ELSE rnd
        hash == Pbkdf2(password, saltBuffer, 100000, KeyLen)
    IN  [hash |-> ToHex(hash), salt |-> ToHex(saltBuffer)]

\* crypto.timingSafeEqual(a, b) on buffers of equal length
timingSafeEqual(a, b) == \A i \in 1..Len(a) : a[i] = b[i]

login_verifyPassword(password, storedHash) ==
    LET parts == Split(storedHash)
        salt == Part(parts, 1)
        hash == Part(parts, 2)
    IN  IF Falsy(salt) \/ Falsy(hash) THEN FALSE
        ELSE LET computedHash == login_hashPassword(password, salt, <<>>).hash
                 storedBuffer == BufferFromHex(hash)
                 computedBuffer == BufferFromHex(computedHash)
             IN  /\ Len(storedBuffer) = Len(computedBuffer)
                 /\ timingSafeEqual(storedBuffer, computedBuffer)

\* crypto.timingSafeEqual(a, b) reads every byte of both buffers
timingSafeEqual_comparison(a, b) ==
    [reached |-> TRUE, equalLength |-> TRUE, length |-> Len(a),
     examined |-> Len(a)]

\* the comparison the login module's verifyPassword makes: the length test,
\* then timingSafeEqual; none when it returns before comparing
login_verifyPassword_comparison(password, storedHash) ==
    LET parts == Split(storedHash)
        salt == Part(parts, 1)
        hash == Part(parts, 2)
    IN  IF Falsy(salt) \/ Falsy(hash) THEN NoComparison
        ELSE LET computedHash == login_hashPassword(password, salt, <<>>).hash
                 storedBuffer == BufferFromHex(hash)
                 computedBuffer == BufferFromHex(computedHash)
             IN  IF Len(storedBuffer) # Len(computedBuffer)
                 THEN [reached |-> TRUE, equalLength |-> FALSE, length |-> 0,
                       examined |-> 0]
                 ELSE timingSafeEqual_comparison(storedBuffer, computedBuffer)

\* `${salt}:${hash}`, the stored form of the login module's {hash, salt}
login_storedHash(h) == h.salt \o <<":">> \o h.hash

-----------------------------------------------------------------------------
(* JavaScript objects, JSON, base64url, SHA-256                            *)

\* an object is the sequence of its [key, value] entries in insertion order
Keys(obj) == {obj[i].key : i \in 1..Len(obj)}

Get(obj, k) == (CHOOSE i \in 1..Len(obj) : obj[i].key = k) \* index
Val(obj, k) == obj[Get(obj, k)].value

\* { ...obj, k: v }: an existing key keeps its place and takes the new value
Put(obj, k, v) ==
    IF k \in Keys(obj)
    THEN [i \in 1..Len(obj) |-> IF obj[i].key = k THEN [key |-> k, value |-> v]
                                 ELSE obj[i]]
    ELSE Append(obj, [key |-> k, value |-> v])

\* Buffer.from(JSON.stringify(obj)).toString('base64url'): an injective
\* encoding of the entries in their order, written as a tagged value
Base64UrlJson(obj) == [base64url |-> [json |-> obj]]

\* JSON.parse(Buffer.from(part, 'base64url').toString())
ParseBase64UrlJson(part) == part.base64url.json

\* createHash('sha256').update(data).digest('base64url'): a plain, unkeyed
\* hash of the data, collision-free
Sha256Base64Url(data) == [sha256 |-> data]

\* `${header}.${payload}.${signature}`
NoToken == [header |-> Base64UrlJson(<<>>), payload |-> Base64UrlJson(<<>>),
            signature |-> Sha256Base64Url(<<>>)]

\* the tests' decodeToken / decodeJWT: the parsed second part
decodeToken(token) == ParseBase64UrlJson(token.payload)

-----------------------------------------------------------------------------
(* Token issuance                                                          *)

TokenHeader == <<[key |-> "alg", value |-> "HS256"], [key |-> "typ", value |-> "JWT"]>>

\* createToken with a one-hour expiry
createToken_oneHour(payload, ms, env) ==
    LET now == ms \div 1000
        exp == now + (60 * 60)
        tokenPayload == Put(Put(payload, "iat", now), "exp", exp)
        encodedHeader == Base64UrlJson(TokenHeader)
        encodedPayload == Base64UrlJson(tokenPayload)
        secret == IF env # "" THEN env ELSE "fallback_secret_key"
        signature == Sha256Base64Url(<<encodedHeader, encodedPayload, secret>>)
    IN  [header |-> encodedHeader, payload |-> encodedPayload,
         signature |-> signature]

\* createToken stamping the day instead of the second
createToken_dayStamp(payload, ms, env) ==
    LET now == (ms \div 86400000) * 86400
        exp == now + (24 * 60 * 60)
        tokenPayload == Put(Put(payload, "iat", now), "exp", exp)
        encodedHeader == Base64UrlJson(TokenHeader)
        encodedPayload == Base64UrlJson(tokenPayload)
        secret == IF env # "" THEN env ELSE "fallback_secret_key"
        signature == Sha256Base64Url(<<encodedHeader, encodedPayload, secret>>)
    IN  [header |-> encodedHeader, payload |-> encodedPayload,
         signature |-> signature]

\* login module: createToken(payload); ms is Date.now(), env is
\* process.env['JWT_SECRET']
createToken(payload, ms, env) ==
    LET now == ms \div 1000
        exp == now + (24 * 60 * 60)
        tokenPayload == Put(Put(payload, "iat", now), "exp", exp)
        encodedHeader == Base64UrlJson(TokenHeader)
        encodedPayload == Base64UrlJson(tokenPayload)
        secret == IF env # "" THEN env ELSE "fallback_secret_key"
        signature == Sha256Base64Url(<<encodedHeader, encodedPayload, secret>>)
    IN  [header |-> encodedHeader, payload |-> encodedPayload,
         signature |-> signature]

\* registration module: createJWT(payload, secret, expiresIn); expiresIn is
\* not read
createJWT(payload, secret, expiresIn, ms) ==
    LET now == ms \div 1000
        exp == now + (7 * 24 * 60 * 60)
        jwtPayload == Put(Put(payload, "iat", now), "exp", exp)
        encodedHeader == Base64UrlJson(TokenHeader)
        encodedPayload == Base64UrlJson(jwtPayload)
        signature == Sha256Base64Url(<<encodedHeader, encodedPayload, secret>>)
    IN  [header |-> encodedHeader, payload |-> encodedPayload,
         signature |-> signature]

-----------------------------------------------------------------------------
(* The users table                                                         *)

NoUser == [id |-> 0, username |-> "", email |-> "", password_hash |-> <<>>,
           created_at |-> 0, updated_at |-> 0]

\* usersTable: serial primary key, unique username, unique email, timestamps
\* default to now(); the serial advances whether or not the row is accepted
usersInsert(tbl, seq, values, ms) ==
    LET row == [id |-> seq + 1, username |-> values.username,
                email |-> values.email, password_hash |-> values.password_hash,
                created_at |-> ms, updated_at |-> ms]
        dup == \E i \in 1..Len(tbl) :
                  tbl[i].username = values.username \/ tbl[i].email = values.email
    IN  IF dup
        THEN [ok |-> FALSE, tbl |-> tbl, seq |-> seq + 1, row |-> NoUser]
        ELSE [ok |-> TRUE, tbl |-> Append(tbl, row), seq |-> seq + 1, row |-> row]

-----------------------------------------------------------------------------
(* Handler results and histories                                           *)

NoCall == [fn |-> "none", module |-> "none", password |-> "", digest |-> <<>>,
           ok |-> FALSE, cmp |-> NoComparison]

NoInput == [username |-> "", email |-> "", password |-> ""]

\* a handler call's outcome: the error thrown ("" when it returned), and what
\* it returned: user and token (AuthResponse) or the rows in value
NoResult == [op |-> "none", userId |-> 0, input |-> NoInput, error |-> "",
             user |-> NoUser, token |-> NoToken, value |-> <<>>]

Failure(op, input, error) ==
    [op |-> op, userId |-> 0, input |-> input, error |-> error,
     user |-> NoUser, token |-> NoToken, value |-> <<>>]

Success(op, input, user, token) ==
    [op |-> op, userId |-> 0, input |-> input, error |-> "", user |-> user,
     token |-> token, value |-> <<>>]

\* a handler called with userId threw
Threw(op, userId, input, error) ==
    [op |-> op, userId |-> userId, input |-> input, error |-> error,
     user |-> NoUser, token |-> NoToken, value |-> <<>>]

\* a handler called with userId returned rows
Returned(op, userId, input, rows) ==
    [op |-> op, userId |-> userId, input |-> input, error |-> "",
     user |-> NoUser, token |-> NoToken, value |-> rows]

\* the issue history keeps the MaxIssued most recent tokens
Remember(log, entry) ==
    IF Len(log) < MaxIssued THEN Append(log, entry)
    ELSE Append(Tail(log), entry)

Issue(by, claims, token, ms) ==
    [by |-> by, claims |-> claims, token |-> token, at |-> ms]

-----------------------------------------------------------------------------
(* registerUser                                                            *)

\* the lookup testing the username only
registerUser_existingUsers_usernameOnly(tbl, input) ==
    {i \in 1..Len(tbl) : tbl[i].username = input.username}

\* rows selected by: username = input.username OR email = input.email
registerUser_existingUsers(tbl, input) ==
    {i \in 1..Len(tbl) :
        tbl[i].username = input.username \/ tbl[i].email = input.email}

\* the error thrown for the first selected row, "" when neither test matches
registerUser_conflict(existingUser, input) ==
    IF existingUser.username = input.username THEN "Username already exists"
    ELSE IF existingUser.email = input.email THEN "Email already exists"
    ELSE ""

\* the token payload without the username
registerUser_claims_noUsername(user) ==
    <<[key |-> "userId", value |-> user.id],
      [key |-> "email", value |-> user.email]>>

registerUser_claims(user) ==
    <<[key |-> "userId", value |-> user.id],
      [key |-> "username", value |-> user.username],
      [key |-> "email", value |-> user.email]>>

registerUser_secret(env) ==
    IF env # "" THEN env ELSE "default_secret_for_development"

\* the SELECT has no ORDER BY: any selected row may come first
RegisterUserRejected(input) ==
    /\ \E i \in registerUser_existingUsers(users, input) :
          /\ registerUser_conflict(users[i], input) # ""
          /\ result' = Failure("registerUser", input,
                               registerUser_conflict(users[i], input))
    /\ UNCHANGED chatVars
    /\ UNCHANGED <<users, users_id_seq, nowMs, jwtSecretEnv, drawn, issued,
                   hashed, hcall>>

RegisterUserInserts(input) ==
    /\ \/ registerUser_existingUsers(users, input) = {}
       \/ \E i \in registerUser_existingUsers(users, input) :
             registerUser_conflict(users[i], input) = ""
    /\ Len(users) < MaxUsers
    /\ \E rnd \in FreshBytes(SaltLen) :
          LET password_hash == hashPassword(input.password, rnd)
              ins == usersInsert(users, users_id_seq,
                                 [username |-> input.username,
                                  email |-> input.email,
                                  password_hash |-> password_hash], nowMs)
              token == createJWT(registerUser_claims(ins.row),
                                 registerUser_secret(jwtSecretEnv), "7d", nowMs)
          IN  /\ drawn' = drawn \cup {rnd}
              /\ hashed' = Append(hashed, [module |-> "register",
                                           password |-> input.password,
                                           digest |-> password_hash])
              /\ users' = ins.tbl
              /\ users_id_seq' = ins.seq
              /\ IF ins.ok
                 THEN /\ result' = Success("registerUser", input, ins.row, token)
                      /\ issued' = Remember(issued,
                                     Issue("registerUser",
                                           registerUser_claims(ins.row), token,
                                           nowMs))
                 ELSE /\ result' = Failure("registerUser", input,
                                           "duplicate key value violates unique constraint")
                      /\ issued' = issued
    /\ UNCHANGED chatVars
    /\ UNCHANGED <<nowMs, jwtSecretEnv, hcall>>

RegisterUser(input) ==
    \/ RegisterUserRejected(input)
    \/ RegisterUserInserts(input)

-----------------------------------------------------------------------------
(* loginUser                                                               *)

\* rows selected by: email = input.email (exact, case-sensitive comparison)
loginUser_users(tbl, input) == {i \in 1..Len(tbl) : tbl[i].email = input.email}

loginUser_claims(user) ==
    <<[key |-> "userId", value |-> user.id],
      [key |-> "email", value |-> user.email]>>

\* the returned user object with the digest left out
loginUser_user_noHash(user) ==
    [id |-> user.id, username |-> user.username, email |-> user.email,
     password_hash |-> <<>>, created_at |-> user.created_at,
     updated_at |-> user.updated_at]

\* the user object the handler returns, field by field
loginUser_user(user) ==
    [id |-> user.id, username |-> user.username, email |-> user.email,
     password_hash |-> user.password_hash, created_at |-> user.created_at,
     updated_at |-> user.updated_at]

\* loginUser telling an unknown email from a wrong password
loginUser_tellsApart(tbl, found, input, ms, env) ==
    IF found = {}
    THEN {Failure("loginUser", input, "User not found")}
    ELSE {IF ~login_verifyPassword(input.password, tbl[i].password_hash)
          THEN Failure("loginUser", input, "Invalid email or password")
          ELSE Success("loginUser", input, loginUser_user(tbl[i]),
                       createToken(loginUser_claims(tbl[i]), ms, env))
          : i \in found}

\* outcome for the selected rows `found` (indices into tbl)
loginUser(tbl, found, input, ms, env) ==
    IF found = {}
    THEN {Failure("loginUser", input, "Invalid email or password")}
    ELSE {IF ~login_verifyPassword(input.password, tbl[i].password_hash)
          THEN Failure("loginUser", input, "Invalid email or password")
          ELSE Success("loginUser", input, loginUser_user(tbl[i]),
                       createToken(loginUser_claims(tbl[i]), ms, env))
          : i \in found}

LoginUser(input) ==
    /\ \E r \in loginUser(users, loginUser_users(users, input), input, nowMs,
                          jwtSecretEnv) :
          /\ result' = r
          /\ issued' = IF r.error = ""
                       THEN Remember(issued,
                                     Issue("loginUser", loginUser_claims(r.user),
                                           r.token, nowMs))
                       ELSE issued
    /\ UNCHANGED chatVars
    /\ UNCHANGED <<users, users_id_seq, nowMs, jwtSecretEnv, drawn, hashed, hcall>>

-----------------------------------------------------------------------------
(* Time                                                                    *)

Tick ==
    /\ nowMs < 500 * MaxTicks
    /\ nowMs' = nowMs + 500
    /\ UNCHANGED <<req, inflight>>
    /\ UNCHANGED chatVars
    /\ UNCHANGED <<users, users_id_seq, jwtSecretEnv, drawn, issued, result,
                   hashed, hcall>>

-----------------------------------------------------------------------------
(* The chat tables                                                         *)

\* number of chat-room inserts attempted in one behaviour
MaxRoomSeq == 2
\* number of membership inserts attempted in one behaviour
MaxMemberSeq == 2
\* rows the messages table may hold
MaxMessages == 1

\* a nullable column or an optional input field: <<>> is null / undefined,
\* <<v>> is the value v
Null == <<>>

\* JavaScript truthiness of an optional string and of an optional number
Truthy(opt) == opt # <<>> /\ opt[1] # ""
TruthyNumber(opt) == opt # <<>> /\ opt[1] # 0

\* x || null
OrNull(opt) == IF Truthy(opt) THEN opt ELSE Null
NumberOrNull(opt) == IF TruthyNumber(opt) THEN opt ELSE Null

UserIds(tbl) == {tbl[i].id : i \in 1..Len(tbl)}

\* chatRoomsTable: serial id, unique invitation_code, created_by references
\* users.id, timestamps default to now()
chatRoomsInsert(tbl, seq, values, ms) ==
    LET row == [id |-> seq + 1, name |-> values.name,
                description |-> values.description,
                invitation_code |-> values.invitation_code,
                created_by |-> values.created_by,
                created_at |-> ms, updated_at |-> ms]
        error ==
            IF values.created_by \notin UserIds(users)
            THEN "violates foreign key constraint"
            ELSE IF \E i \in 1..Len(tbl) :
                        tbl[i].invitation_code = values.invitation_code
            THEN "duplicate key value violates unique constraint"
            ELSE ""
    IN  [error |-> error, seq |-> seq + 1, row |-> row,
         tbl |-> IF error = "" THEN Append(tbl, row) ELSE tbl]

\* roomMembersTable: serial id, room_id references chat_rooms.id, user_id
\* references users.id; no uniqueness on (room_id, user_id)
roomMembersInsert(tbl, seq, values, rooms, ms) ==
    LET row == [id |-> seq + 1, room_id |-> values.room_id,
                user_id |-> values.user_id, joined_at |-> ms]
        error ==
            IF \/ values.user_id \notin UserIds(users)
               \/ values.room_id \notin {rooms[i].id : i \in 1..Len(rooms)}
            THEN "violates foreign key constraint"
            ELSE ""
    IN  [error |-> error, seq |-> seq + 1, row |-> row,
         tbl |-> IF error = "" THEN Append(tbl, row) ELSE tbl]

\* rows of room_members with this user_id, whatever the room
Membership_anyRoom(room_id, user_id) ==
    {i \in 1..Len(room_members) : room_members[i].user_id = user_id}

\* rows of room_members with this room_id and user_id
Membership(room_id, user_id) ==
    {i \in 1..Len(room_members) :
        room_members[i].room_id = room_id /\ room_members[i].user_id = user_id}

\* messages joined with users on user_id: the row plus the author's username
WithUsername(m) ==
    LET u == CHOOSE i \in 1..Len(users) : users[i].id = m.user_id
    IN  [id |-> m.id, room_id |-> m.room_id, user_id |-> m.user_id,
         content |-> m.content, message_type |-> m.message_type,
         file_url |-> m.file_url, file_name |-> m.file_name,
         file_size |-> m.file_size, file_type |-> m.file_type,
         is_deleted |-> m.is_deleted, deleted_at |-> m.deleted_at,
         created_at |-> m.created_at, updated_at |-> m.updated_at,
         username |-> users[u].username]

\* the orders in which a SELECT ... ORDER BY key DESC may return the rows
\* idx (indices into tbl): rows with equal keys come in any order
DescOrders(idx, key) ==
    {o \in [1..Cardinality(idx) -> idx] :
        /\ \A a, b \in 1..Cardinality(idx) : a # b => o[a] # o[b]
        /\ \A a, b \in 1..Cardinality(idx) : a < b => key[o[a]] >= key[o[b]]}

\* LIMIT limit OFFSET offset
Slice(rows, limit, offset) ==
    SubSeq(rows, offset + 1,
           IF offset + limit < Len(rows) THEN offset + limit ELSE Len(rows))

-----------------------------------------------------------------------------
(* createChatRoom                                                          *)

InvitationCharacters ==
    <<"A","B","C","D","E","F","G","H","I","J","K","L","M","N","O","P","Q","R",
      "S","T","U","V","W","X","Y","Z","0","1","2","3","4","5","6","7","8","9">>

\* a code of six characters
generateInvitationCode_short(rand) ==
    [i \in 1..6 |-> InvitationCharacters[rand[i] + 1]]

\* generateInvitationCode(); rand[i] is Math.floor(Math.random() * 36) of the
\* i-th round
generateInvitationCode(rand) ==
    [i \in 1..8 |-> InvitationCharacters[rand[i] + 1]]

\* outcomes of the eight Math.random() draws in the model
RandomDraws == {[i \in 1..8 |-> IF i % 2 = 1 THEN a ELSE 35 - a] : a \in {0, 26}}

CreateChatRoom(input, userId) ==
    /\ chat_rooms_id_seq < MaxRoomSeq
    /\ room_members_id_seq < MaxMemberSeq
    /\ \E rand \in RandomDraws :
          LET invitationCode == generateInvitationCode(rand)
              room == chatRoomsInsert(chat_rooms, chat_rooms_id_seq,
                                      [name |-> input.name,
                                       description |-> input.description,
                                       invitation_code |-> invitationCode,
                                       created_by |-> userId], nowMs)
              member == roomMembersInsert(room_members, room_members_id_seq,
                                          [room_id |-> room.row.id,
                                           user_id |-> userId],
                                          room.tbl, nowMs)
          IN  /\ chat_rooms_id_seq' = room.seq
              /\ chat_rooms' = room.tbl
              /\ IF room.error # ""
                 THEN /\ result' = Threw("createChatRoom", userId, input, room.error)
                      /\ UNCHANGED <<room_members, room_members_id_seq>>
                 ELSE /\ room_members' = member.tbl
                      /\ room_members_id_seq' = member.seq
                      /\ result' = IF member.error # ""
                                   THEN Threw("createChatRoom", userId, input,
                                              member.error)
                                   ELSE Returned("createChatRoom", userId, input,
                                                 <<room.row>>)
    /\ UNCHANGED <<users, users_id_seq, nowMs, jwtSecretEnv, drawn, issued,
                   hashed, hcall, messages, messages_id_seq>>

-----------------------------------------------------------------------------
(* joinRoom                                                                *)

\* the lookup returning every room
joinRoom_rooms_all(input) == {i \in 1..Len(chat_rooms) : TRUE}

joinRoom_rooms(input) ==
    {i \in 1..Len(chat_rooms) :
        chat_rooms[i].invitation_code = input.invitation_code}

\* the membership values naming the room's creator
joinRoom_values_creator(room, userId) ==
    [room_id |-> room.id, user_id |-> room.created_by]

\* the values of the membership row joinRoom inserts
joinRoom_values(room, userId) == [room_id |-> room.id, user_id |-> userId]

JoinRoom(input, userId) ==
    /\ IF joinRoom_rooms(input) = {}
       THEN /\ result' = Threw("joinRoom", userId, input, "Invalid invitation code")
            /\ UNCHANGED <<room_members, room_members_id_seq>>
       ELSE \E r \in joinRoom_rooms(input) :
               IF Membership(chat_rooms[r].id, userId) # {}
               THEN /\ result' = Threw("joinRoom", userId, input,
                                       "User is already a member of this room")
                    /\ UNCHANGED <<room_members, room_members_id_seq>>
               ELSE LET member == roomMembersInsert(room_members,
                                      room_members_id_seq,
                                      joinRoom_values(chat_rooms[r], userId),
                                      chat_rooms, nowMs)
                    IN  /\ room_members_id_seq < MaxMemberSeq
                        /\ room_members' = member.tbl
                        /\ room_members_id_seq' = member.seq
                        /\ result' = IF member.error # ""
                                     THEN Threw("joinRoom", userId, input,
                                                member.error)
                                     ELSE Returned("joinRoom", userId, input,
                                                   <<chat_rooms[r]>>)
    /\ UNCHANGED <<users, users_id_seq, nowMs, jwtSecretEnv, drawn, issued,
                   hashed, hcall, chat_rooms, chat_rooms_id_seq, messages,
                   messages_id_seq>>

-----------------------------------------------------------------------------
(* getUserRooms                                                            *)

\* the join without the test on the user
getUserRooms_joined_anyUser(input) ==
    {<<m, r>> \in (1..Len(room_members)) \X (1..Len(chat_rooms)) :
        room_members[m].room_id = chat_rooms[r].id}

\* room_members joined with chat_rooms on room_id, for this user: one entry
\* per membership row, as the index of the room
getUserRooms_joined(input) ==
    {<<m, r>> \in (1..Len(room_members)) \X (1..Len(chat_rooms)) :
        /\ room_members[m].user_id = input.user_id
        /\ room_members[m].room_id = chat_rooms[r].id}

getUserRooms_entry(room) ==
    [id |-> room.id, name |-> room.name, description |-> room.description,
     invitation_code |-> room.invitation_code, created_by |-> room.created_by,
     created_at |-> room.created_at, updated_at |-> room.updated_at,
     member_count |-> Cardinality({i \in 1..Len(room_members) :
                                      room_members[i].room_id = room.id}),
     is_member |-> TRUE]

GetUserRooms(input) ==
    /\ \E o \in DescOrders(getUserRooms_joined(input),
                           [p \in getUserRooms_joined(input) |->
                               chat_rooms[p[2]].updated_at]) :
          result' = Returned("getUserRooms", 0, input,
                             [k \in 1..Len(o) |->
                                 getUserRooms_entry(chat_rooms[o[k][2]])])
    /\ UNCHANGED <<users, users_id_seq, nowMs, jwtSecretEnv, drawn, issued,
                   hashed, hcall>>
    /\ UNCHANGED chatVars

-----------------------------------------------------------------------------
(* sendMessage                                                             *)

\* no validation at all
sendMessage_validation_none(input) == ""

\* the validation of text messages alone
sendMessage_validation_textOnly(input) ==
    IF input.message_type = "text" /\ ~Truthy(input.content)
    THEN "Text messages must have content"
    ELSE ""

sendMessage_validation(input) ==
    IF input.message_type = "text" /\ ~Truthy(input.content)
    THEN "Text messages must have content"
    ELSE IF input.message_type # "text" /\ ~Truthy(input.file_url)
    THEN "File messages must have file_url"
    ELSE ""

\* the inserted row without the file's name
sendMessage_row_noFileName(input, userId, id, ms) ==
    [id |-> id, room_id |-> input.room_id, user_id |-> userId,
     content |-> OrNull(input.content), message_type |-> input.message_type,
     file_url |-> OrNull(input.file_url), file_name |-> Null,
     file_size |-> NumberOrNull(input.file_size), file_type |-> OrNull(input.file_type),
     is_deleted |-> FALSE, deleted_at |-> Null,
     created_at |-> ms, updated_at |-> ms]

\* the inserted row; created_at and updated_at default to now()
sendMessage_row(input, userId, id, ms) ==
    [id |-> id, room_id |-> input.room_id, user_id |-> userId,
     content |-> OrNull(input.content), message_type |-> input.message_type,
     file_url |-> OrNull(input.file_url), file_name |-> OrNull(input.file_name),
     file_size |-> NumberOrNull(input.file_size), file_type |-> OrNull(input.file_type),
     is_deleted |-> FALSE, deleted_at |-> Null,
     created_at |-> ms, updated_at |-> ms]

SendMessage(input, userId) ==
    /\ IF Membership(input.room_id, userId) = {}
       THEN /\ result' = Threw("sendMessage", userId, input,
                               "User is not a member of this room")
            /\ UNCHANGED <<messages, messages_id_seq>>
       ELSE IF sendMessage_validation(input) # ""
       THEN /\ result' = Threw("sendMessage", userId, input,
                               sendMessage_validation(input))
            /\ UNCHANGED <<messages, messages_id_seq>>
       ELSE LET message == sendMessage_row(input, userId, messages_id_seq + 1,
                                           nowMs)
            IN  /\ Len(messages) < MaxMessages
                /\ messages' = Append(messages, message)
                /\ messages_id_seq' = messages_id_seq + 1
                /\ result' = Returned("sendMessage", userId, input,
                                      <<WithUsername(message)>>)
    /\ UNCHANGED <<users, users_id_seq, nowMs, jwtSecretEnv, drawn, issued,
                   hashed, hcall, chat_rooms, chat_rooms_id_seq, room_members,
                   room_members_id_seq>>

-----------------------------------------------------------------------------
(* getMessages                                                             *)

getMessages_rows(input) ==
    {i \in 1..Len(messages) : messages[i].room_id = input.room_id}

GetMessages(input, userId) ==
    /\ IF Membership(input.room_id, userId) = {}
       THEN result' = Threw("getMessages", userId, input,
                            "User is not a member of this room")
       ELSE \E o \in DescOrders(getMessages_rows(input),
                                [i \in getMessages_rows(input) |->
                                    messages[i].created_at]) :
               result' = Returned("getMessages", userId, input,
                            Slice([k \in 1..Len(o) |-> WithUsername(messages[o[k]])],
                                  input.limit, input.offset))
    /\ UNCHANGED <<users, users_id_seq, nowMs, jwtSecretEnv, drawn, issued,
                   hashed, hcall>>
    /\ UNCHANGED chatVars

-----------------------------------------------------------------------------
(* deleteMessage                                                           *)

\* the lookup by message id alone
deleteMessage_existing_anyAuthor(input, userId) ==
    {i \in 1..Len(messages) : messages[i].id = input.message_id}

deleteMessage_existing(input, userId) ==
    {i \in 1..Len(messages) :
        messages[i].id = input.message_id /\ messages[i].user_id = userId}

\* the update also erasing the content
deleteMessage_update_clearsContent(tbl, message_id, ms) ==
    [i \in 1..Len(tbl) |->
        IF tbl[i].id = message_id
        THEN [tbl[i] EXCEPT !.is_deleted = TRUE, !.deleted_at = <<ms>>,
                            !.updated_at = ms, !.content = Null]
        ELSE tbl[i]]

\* UPDATE messages SET is_deleted, deleted_at, updated_at WHERE id = message_id
deleteMessage_update(tbl, message_id, ms) ==
    [i \in 1..Len(tbl) |->
        IF tbl[i].id = message_id
        THEN [tbl[i] EXCEPT !.is_deleted = TRUE, !.deleted_at = <<ms>>,
                            !.updated_at = ms]
        ELSE tbl[i]]

\* the test never finding a message deleted
deleteMessage_alreadyDeleted_never(message) == FALSE

\* if (message.is_deleted)
deleteMessage_alreadyDeleted(message) == message.is_deleted

DeleteMessage(input, userId) ==
    /\ IF deleteMessage_existing(input, userId) = {}
       THEN /\ result' = Threw("deleteMessage", userId, input,
                   "Message not found or you are not authorized to delete this message")
            /\ messages' = messages
       ELSE \E i \in deleteMessage_existing(input, userId) :
               IF deleteMessage_alreadyDeleted(messages[i])
               THEN /\ result' = Threw("deleteMessage", userId, input,
                                       "Message is already deleted")
                    /\ messages' = messages
               ELSE LET updated == deleteMessage_update(messages,
                                       input.message_id, nowMs)
                    IN  /\ messages' = updated
                        /\ result' = Returned("deleteMessage", userId, input,
                                              <<WithUsername(updated[i])>>)
    /\ UNCHANGED <<users, users_id_seq, nowMs, jwtSecretEnv, drawn, issued,
                   hashed, hcall, chat_rooms, chat_rooms_id_seq, room_members,
                   room_members_id_seq, messages_id_seq>>

-----------------------------------------------------------------------------
(* The handlers statement by statement: every await hands control to the   *)
(* other calls in progress, and every statement is a transaction of its    *)
(* own. Call p of inflight executes its next statement.                    *)

RegisterUser_step(p, input) ==
    LET call == inflight[p]
        ends(pc) == [op |-> "registerUser", userId |-> 0, input |-> input,
                     pc |-> pc, seen |-> <<>>]
    IN
    /\ \/ /\ call.pc \in {"idle", "returned", "threw"}
          /\ IF \E i \in registerUser_existingUsers(users, input) :
                   registerUser_conflict(users[i], input) # ""
             THEN \E i \in registerUser_existingUsers(users, input) :
                     /\ registerUser_conflict(users[i], input) # ""
                     /\ result' = Failure("registerUser", input,
                                          registerUser_conflict(users[i], input))
                     /\ inflight' = [inflight EXCEPT ![p] = ends("threw")]
             ELSE /\ result' = result
                  /\ inflight' = [inflight EXCEPT ![p] = ends("insert")]
          /\ UNCHANGED <<users, users_id_seq, drawn, issued, hashed>>
       \/ /\ call.op = "registerUser" /\ call.pc = "insert"
          /\ call.input = input
          /\ users_id_seq < MaxUsers
          /\ Len(hashed) < MaxHashed
          /\ \E rnd \in FreshBytes(SaltLen) :
                LET password_hash == hashPassword(input.password, rnd)
                    ins == usersInsert(users, users_id_seq,
                                       [username |-> input.username,
                                        email |-> input.email,
                                        password_hash |-> password_hash], nowMs)
                    token == createJWT(registerUser_claims(ins.row),
                                       registerUser_secret(jwtSecretEnv), "7d",
                                       nowMs)
                IN  /\ drawn' = drawn \cup {rnd}
                    /\ hashed' = Append(hashed, [module |-> "register",
                                                 password |-> input.password,
                                                 digest |-> password_hash])
                    /\ users' = ins.tbl
                    /\ users_id_seq' = ins.seq
                    /\ IF ins.ok
                       THEN /\ result' = Success("registerUser", input, ins.row,
                                                 token)
                            /\ issued' = Remember(issued,
                                           Issue("registerUser",
                                                 registerUser_claims(ins.row),
                                                 token, nowMs))
                            /\ inflight' = [inflight EXCEPT ![p] = ends("returned")]
                       ELSE /\ result' = Failure("registerUser", input,
                                   "duplicate key value violates unique constraint")
                            /\ issued' = issued
                            /\ inflight' = [inflight EXCEPT ![p] = ends("threw")]
    /\ UNCHANGED chatVars
    /\ UNCHANGED <<nowMs, jwtSecretEnv, hcall, req>>

CreateChatRoom_step(p, input, userId) ==
    LET call == inflight[p]
        at(pc, rows) == [op |-> "createChatRoom", userId |-> userId,
                         input |-> input, pc |-> pc, seen |-> rows]
    IN
    /\ \/ /\ call.pc \in {"idle", "returned", "threw"}
          /\ chat_rooms_id_seq < MaxRoomSeq
          /\ \E rand \in RandomDraws :
                LET room == chatRoomsInsert(chat_rooms, chat_rooms_id_seq,
                               [name |-> input.name,
                                description |-> input.description,
                                invitation_code |-> generateInvitationCode(rand),
                                created_by |-> userId], nowMs)
                IN  /\ chat_rooms_id_seq' = room.seq
                    /\ chat_rooms' = room.tbl
                    /\ IF room.error # ""
                       THEN /\ result' = Threw("createChatRoom", userId, input,
                                               room.error)
                            /\ inflight' = [inflight EXCEPT
                                               ![p] = at("threw", <<>>)]
                       ELSE /\ result' = result
                            /\ inflight' = [inflight EXCEPT
                                               ![p] = at("member", <<room.row>>)]
          /\ UNCHANGED <<room_members, room_members_id_seq>>
       \/ /\ call.op = "createChatRoom" /\ call.pc = "member"
          /\ call.input = input /\ call.userId = userId
          /\ room_members_id_seq < MaxMemberSeq
          /\ LET member == roomMembersInsert(room_members, room_members_id_seq,
                               [room_id |-> call.seen[1].id, user_id |-> userId],
                               chat_rooms, nowMs)
             IN  /\ room_members' = member.tbl
                 /\ room_members_id_seq' = member.seq
                 /\ IF member.error # ""
                    THEN /\ result' = Threw("createChatRoom", userId, input,
                                            member.error)
                         /\ inflight' = [inflight EXCEPT ![p] = at("threw", <<>>)]
                    ELSE /\ result' = Returned("createChatRoom", userId, input,
                                               call.seen)
                         /\ inflight' = [inflight EXCEPT
                                            ![p] = at("returned", call.seen)]
          /\ UNCHANGED <<chat_rooms, chat_rooms_id_seq>>
    /\ UNCHANGED <<users, users_id_seq, nowMs, jwtSecretEnv, drawn, issued,
                   hashed, hcall, messages, messages_id_seq, req>>

JoinRoom_step(p, input, userId) ==
    LET call == inflight[p]
        at(pc, rows) == [op |-> "joinRoom", userId |-> userId, input |-> input,
                         pc |-> pc, seen |-> rows]
        throws(error) ==
            /\ result' = Threw("joinRoom", userId, input, error)
            /\ inflight' = [inflight EXCEPT ![p] = at("threw", <<>>)]
    IN
    /\ \/ /\ call.pc \in {"idle", "returned", "threw"}
          /\ IF joinRoom_rooms(input) = {}
             THEN throws("Invalid invitation code")
             ELSE \E r \in joinRoom_rooms(input) :
                     /\ result' = result
                     /\ inflight' = [inflight EXCEPT
                                        ![p] = at("membership", <<chat_rooms[r]>>)]
          /\ UNCHANGED <<room_members, room_members_id_seq>>
       \/ /\ call.op = "joinRoom" /\ call.pc = "membership"
          /\ call.input = input /\ call.userId = userId
          /\ IF Membership(call.seen[1].id, userId) # {}
             THEN throws("User is already a member of this room")
             ELSE /\ result' = result
                  /\ inflight' = [inflight EXCEPT ![p] = at("insert", call.seen)]
          /\ UNCHANGED <<room_members, room_members_id_seq>>
       \/ /\ call.op = "joinRoom" /\ call.pc = "insert"
          /\ call.input = input /\ call.userId = userId
          /\ room_members_id_seq < MaxMemberSeq
          /\ LET member == roomMembersInsert(room_members, room_members_id_seq,
                               joinRoom_values(call.seen[1], userId),
                               chat_rooms, nowMs)
             IN  /\ room_members' = member.tbl
                 /\ room_members_id_seq' = member.seq
                 /\ IF member.error # ""
                    THEN throws(member.error)
                    ELSE /\ result' = Returned("joinRoom", userId, input,
                                               call.seen)
                         /\ inflight' = [inflight EXCEPT
                                            ![p] = at("returned", call.seen)]
    /\ UNCHANGED <<users, users_id_seq, nowMs, jwtSecretEnv, drawn, issued,
                   hashed, hcall, chat_rooms, chat_rooms_id_seq, messages,
                   messages_id_seq, req>>

DeleteMessage_step(p, input, userId) ==
    LET call == inflight[p]
        at(pc, rows) == [op |-> "deleteMessage", userId |-> userId,
                         input |-> input, pc |-> pc, seen |-> rows]
        throws(error) ==
            /\ result' = Threw("deleteMessage", userId, input, error)
            /\ inflight' = [inflight EXCEPT ![p] = at("threw", <<>>)]
    IN
    /\ \/ /\ call.pc \in {"idle", "returned", "threw"}
          /\ IF deleteMessage_existing(input, userId) = {}
             THEN throws("Message not found or you are not authorized to delete this message")
             ELSE \E i \in deleteMessage_existing(input, userId) :
                     IF deleteMessage_alreadyDeleted(messages[i])
                     THEN throws("Message is already deleted")
                     ELSE /\ result' = result
                          /\ inflight' = [inflight EXCEPT
                                             ![p] = at("update", <<messages[i]>>)]
          /\ messages' = messages
       \/ /\ call.op = "deleteMessage" /\ call.pc = "update"
          /\ call.input = input /\ call.userId = userId
          /\ messages' = deleteMessage_update(messages, input.message_id, nowMs)
          /\ result' = result
          /\ inflight' = [inflight EXCEPT
                             ![p] = at("select",
                                       SelectSeq(messages',
                                          LAMBDA m : m.id = input.message_id))]
       \/ /\ call.op = "deleteMessage" /\ call.pc = "select"
          /\ call.input = input /\ call.userId = userId
          /\ \E i \in 1..Len(messages) :
                /\ messages[i].id = input.message_id
                /\ result' = Returned("deleteMessage", userId, input,
                                      <<WithUsername(messages[i])>>)
                /\ inflight' = [inflight EXCEPT
                                   ![p] = at("returned",
                                             <<WithUsername(messages[i])>>)]
          /\ messages' = messages
    /\ UNCHANGED <<users, users_id_seq, nowMs, jwtSecretEnv, drawn, issued,
                   hashed, hcall, chat_rooms, chat_rooms_id_seq, room_members,
                   room_members_id_seq, messages_id_seq, req>>

-----------------------------------------------------------------------------
(* Initial contents of the chat tables and the request record              *)

EmptyChat ==
    /\ chat_rooms = <<>>
    /\ chat_rooms_id_seq = 0
    /\ room_members = <<>>
    /\ room_members_id_seq = 0
    /\ messages = <<>>
    /\ messages_id_seq = 0

\* number of handler calls that may be in progress at once
MaxInFlight == 2

\* a call in progress: the operation, its arguments, the statement it will
\* execute next (pc) and what its earlier statements returned (seen); a call
\* that has ended keeps its record, with pc "returned" or "threw", until
\* another call takes its place
Idle == [op |-> "none", userId |-> 0, input |-> NoInput, pc |-> "idle",
         seen |-> <<>>]

NoReq == [procedure |-> "none",
          authorization |-> [kind |-> "none", token |-> NoToken],
          context |-> [none |-> TRUE], handler |-> "none", userId |-> 0]

-----------------------------------------------------------------------------
(* The handlers as the tests call them                                     *)

\* registration inputs: a user, the same username with another email, the
\* same email with another username, and an unrelated user
RegisterInputs ==
    {[username |-> "testuser", email |-> "test@example.com",
      password |-> "password123"],
     [username |-> "testuser", email |-> "different@example.com",
      password |-> "password456"],
     [username |-> "differentuser", email |-> "test@example.com",
      password |-> "password456"],
     [username |-> "differentuser", email |-> "different@example.com",
      password |-> "password123"]}

LoginEmails == {"test@example.com", "TEST@EXAMPLE.COM", "different@example.com",
                "nonexistent@example.com"}

LoginInputs == [email : LoginEmails, password : Passwords]

\* rows a test fixture inserts directly: a user whose digest the login
\* module's hashPassword produced, and one with a digest without delimiter
SeedSalt == CHOOSE rnd \in RandomBytes(SaltLen) : TRUE

SeedUser ==
    [id |-> 1, username |-> "testuser", email |-> "test@example.com",
     password_hash |-> login_storedHash(
                           login_hashPassword("password123", Undefined, SeedSalt)),
     created_at |-> 0, updated_at |-> 0]

MalformedSeedUser ==
    [id |-> 1, username |-> "testuser", email |-> "test@example.com",
     password_hash |-> <<"b", "a", "d", "x">>,
     created_at |-> 0, updated_at |-> 0]

Init ==
    /\ \/ users = <<>> /\ users_id_seq = 0 /\ drawn = {}
       \/ users = <<SeedUser>> /\ users_id_seq = 1 /\ drawn = {SeedSalt}
       \/ users = <<MalformedSeedUser>> /\ users_id_seq = 1 /\ drawn = {}
    /\ nowMs = 0
    /\ jwtSecretEnv \in {"", "s3cr3t"}
    /\ issued = <<>>
    /\ result = NoResult
    /\ hashed = <<>>
    /\ hcall = NoCall
    /\ EmptyChat
    /\ req = NoReq
    /\ inflight = [p \in 1..MaxInFlight |-> Idle]

\* a test calling a handler directly: no request is served
Call_registerUserRejected(input) == RegisterUserRejected(input) /\ UNCHANGED <<req, inflight>>
Call_registerUserInserts(input) == RegisterUserInserts(input) /\ UNCHANGED <<req, inflight>>
Call_loginUser(input) == LoginUser(input) /\ UNCHANGED <<req, inflight>>

Next ==
    \/ Tick
    \/ \E input \in RegisterInputs : Call_registerUserRejected(input)
    \/ \E input \in RegisterInputs : Call_registerUserInserts(input)
    \/ \E input \in LoginInputs : Call_loginUser(input)

Spec == Init /\ [][Next]_vars

-----------------------------------------------------------------------------
(* The router: appRouter's procedures behind createHTTPServer             *)

CreateRoomInputs ==
    {[name |-> "Test Chat Room", description |-> <<"A room for testing">>],
     [name |-> "Second Room", description |-> Null]}

JoinRoomInputs ==
    {[invitation_code |-> generateInvitationCode(rand)] : rand \in RandomDraws}
    \cup {[invitation_code |-> <<"I","N","V","A","L","I","D","1">>]}

NoFile == [file_url |-> <<>>, file_name |-> <<>>, file_size |-> <<>>,
           file_type |-> <<>>]

SendMessageInputs ==
    {[room_id |-> 1, content |-> <<"Hello, world!">>, message_type |-> "text",
      file_url |-> <<>>, file_name |-> <<>>, file_size |-> <<>>,
      file_type |-> <<>>],
     [room_id |-> 1, content |-> <<>>, message_type |-> "text",
      file_url |-> <<>>, file_name |-> <<>>, file_size |-> <<>>,
      file_type |-> <<>>],
     [room_id |-> 1, content |-> <<>>, message_type |-> "file",
      file_url |-> <<"https://example.com/file.pdf">>,
      file_name |-> <<"file.pdf">>, file_size |-> <<1024>>,
      file_type |-> <<"application/pdf">>],
     [room_id |-> 1, content |-> <<"no url">>, message_type |-> "image",
      file_url |-> <<>>, file_name |-> <<>>, file_size |-> <<>>,
      file_type |-> <<>>],
     [room_id |-> 2, content |-> <<"Hello, world!">>, message_type |-> "text",
      file_url |-> <<>>, file_name |-> <<>>, file_size |-> <<>>,
      file_type |-> <<>>],
     [room_id |-> 1, content |-> <<"">>, message_type |-> "text",
      file_url |-> <<>>, file_name |-> <<>>, file_size |-> <<>>,
      file_type |-> <<>>],
     [room_id |-> 1, content |-> <<>>, message_type |-> "file",
      file_url |-> <<>>, file_name |-> <<"test.pdf">>, file_size |-> <<>>,
      file_type |-> <<>>],
     [room_id |-> 1, content |-> <<>>, message_type |-> "document",
      file_url |-> <<"">>, file_name |-> <<>>, file_size |-> <<>>,
      file_type |-> <<>>],
     [room_id |-> 1, content |-> <<>>, message_type |-> "file",
      file_url |-> <<"https://example.com/file.txt">>, file_name |-> <<>>,
      file_size |-> <<>>, file_type |-> <<>>]}

GetMessagesInputs == [room_id : {1, 2}, limit : {1, 50}, offset : {0, 1}]

DeleteMessageInputs == [message_id : {1, 2}]

GetUserRoomsInputs == [user_id : {1, 2}]

\* the requests considered for each procedure (each passes its zod schema)
RouterRegisterInputs ==
    {[username |-> "testuser", email |-> "test@example.com",
      password |-> "password123"]}

RouterLoginInputs == [email : {"test@example.com"}, password : {"password123"}]

RouterCreateRoomInputs ==
    {[name |-> "Test Chat Room", description |-> <<"A room for testing">>]}

RouterJoinRoomInputs ==
    {[invitation_code |-> generateInvitationCode(rand)] : rand \in RandomDraws}

RouterSendMessageInputs ==
    {m \in SendMessageInputs : m.room_id = 1 /\ m.message_type = "text"}

RouterGetMessagesInputs == [room_id : {1}, limit : {50}, offset : {0}]

RouterDeleteMessageInputs == [message_id : {1}]

RouterGetUserRoomsInputs == [user_id : {1}]

\* a token nobody issued
ForgedToken == [header |-> Base64UrlJson(TokenHeader),
                payload |-> Base64UrlJson(<<[key |-> "userId", value |-> 2]>>),
                signature |-> Sha256Base64Url(<<"forged">>)]

\* what a request may carry in its authorization header: nothing, a token the
\* server issued, or a forged one
AuthorizationHeaders ==
    {[kind |-> "none", token |-> NoToken],
     [kind |-> "bearer", token |-> ForgedToken]}
    \cup {[kind |-> "bearer", token |-> issued[n].token] : n \in {Len(issued)} \ {0}}

\* createContext(): the context every procedure receives
createContext(authorization) == [none |-> TRUE]

Served(procedure, authorization, handler, userId) ==
    [procedure |-> procedure, authorization |-> authorization,
     context |-> createContext(authorization), handler |-> handler,
     userId |-> userId]

Route_healthcheck(authorization) ==
    /\ UNCHANGED inflight
    /\ req' = Served("healthcheck", authorization, "none", 0)
    /\ result' = Returned("healthcheck", 0, NoInput, <<[status |-> "ok"]>>)
    /\ UNCHANGED <<users, users_id_seq, nowMs, jwtSecretEnv, drawn, issued,
                   hashed, hcall>>
    /\ UNCHANGED chatVars

Route_registerUser(authorization, input) ==
    /\ RegisterUser(input)
    /\ UNCHANGED inflight
    /\ req' = Served("registerUser", authorization, "registerUser", 0)

Route_loginUser(authorization, input) ==
    /\ LoginUser(input)
    /\ UNCHANGED inflight
    /\ req' = Served("loginUser", authorization, "loginUser", 0)

\* the identity every procedure below hands to its handler
PlaceholderUserId == 1

Route_createChatRoom(authorization, input) ==
    /\ CreateChatRoom(input, PlaceholderUserId)
    /\ UNCHANGED inflight
    /\ req' = Served("createChatRoom", authorization, "createChatRoom",
                     PlaceholderUserId)

Route_joinRoom(authorization, input) ==
    /\ JoinRoom(input, PlaceholderUserId)
    /\ UNCHANGED inflight
    /\ req' = Served("joinRoom", authorization, "joinRoom", PlaceholderUserId)

Route_getUserRooms(authorization, input) ==
    /\ GetUserRooms(input)
    /\ UNCHANGED inflight
    /\ req' = Served("getUserRooms", authorization, "getUserRooms", 0)

Route_sendMessage(authorization, input) ==
    /\ SendMessage(input, PlaceholderUserId)
    /\ UNCHANGED inflight
    /\ req' = Served("sendMessage", authorization, "sendMessage",
                     PlaceholderUserId)

Route_getMessages(authorization, input) ==
    /\ GetMessages(input, PlaceholderUserId)
    /\ UNCHANGED inflight
    /\ req' = Served("getMessages", authorization, "getMessages",
                     PlaceholderUserId)

Route_deleteMessage(authorization, input) ==
    /\ DeleteMessage(input, PlaceholderUserId)
    /\ UNCHANGED inflight
    /\ req' = Served("deleteMessage", authorization, "deleteMessage",
                     PlaceholderUserId)

InitRouter ==
    /\ users = <<>>
    /\ users_id_seq = 0
    /\ drawn = {}
    /\ nowMs = 0
    /\ jwtSecretEnv = ""
    /\ issued = <<>>
    /\ result = NoResult
    /\ hashed = <<>>
    /\ hcall = NoCall
    /\ EmptyChat
    /\ req = NoReq
    /\ inflight = [p \in 1..MaxInFlight |-> Idle]

NextRouter ==
    \/ \E authorization \in AuthorizationHeaders : Route_healthcheck(authorization)
    \/ \E authorization \in AuthorizationHeaders :
          \E input \in RouterRegisterInputs :
             Route_registerUser(authorization, input)
    \/ \E authorization \in AuthorizationHeaders :
          \E input \in RouterLoginInputs : Route_loginUser(authorization, input)
    \/ \E authorization \in AuthorizationHeaders :
          \E input \in RouterCreateRoomInputs :
             Route_createChatRoom(authorization, input)
    \/ \E authorization \in AuthorizationHeaders :
          \E input \in RouterJoinRoomInputs :
             Route_joinRoom(authorization, input)
    \/ \E authorization \in AuthorizationHeaders :
          \E input \in RouterGetUserRoomsInputs :
             Route_getUserRooms(authorization, input)
    \/ \E authorization \in AuthorizationHeaders :
          \E input \in RouterSendMessageInputs :
             Route_sendMessage(authorization, input)
    \/ \E authorization \in AuthorizationHeaders :
          \E input \in RouterGetMessagesInputs :
             Route_getMessages(authorization, input)
    \/ \E authorization \in AuthorizationHeaders :
          \E input \in RouterDeleteMessageInputs :
             Route_deleteMessage(authorization, input)

SpecRouter == InitRouter /\ [][NextRouter]_vars

-----------------------------------------------------------------------------
(* The room and message handlers as the tests call them: with a user id,   *)
(* on tables holding the rows the fixtures insert directly                 *)

\* the two users every chat test inserts
FixtureUsers ==
    <<[id |-> 1, username |-> "testuser", email |-> "test@example.com",
       password_hash |-> <<"h", "a", "s", "h">>, created_at |-> 0,
       updated_at |-> 0],
      [id |-> 2, username |-> "anotheruser", email |-> "another@example.com",
       password_hash |-> <<"h", "a", "s", "h">>, created_at |-> 0,
       updated_at |-> 0]>>

\* user ids handed to the handlers: the two users and an id no user has
ChatUserIds == {1, 2, 999}

\* the room the fixtures insert directly: created by user 1, no member yet
FixtureCode == <<"T", "E", "S", "T", "1", "2", "3">>

FixtureRoom ==
    [id |-> 1, name |-> "Test Room", description |-> <<"A room for testing">>,
     invitation_code |-> FixtureCode, created_by |-> 1, created_at |-> 0,
     updated_at |-> 0]

\* the message the deleteMessage fixture inserts directly
FixtureMessage ==
    [id |-> 1, room_id |-> 1, user_id |-> 1,
     content |-> <<"Test message to be deleted">>, message_type |-> "text",
     file_url |-> Null, file_name |-> Null, file_size |-> Null,
     file_type |-> Null, is_deleted |-> FALSE, deleted_at |-> Null,
     created_at |-> 0, updated_at |-> 0]

ChatCreateRoomInputs ==
    {[name |-> "Test Chat Room", description |-> <<"A room for testing">>]}

ChatJoinRoomInputs ==
    {[invitation_code |-> FixtureCode],
     [invitation_code |-> <<"I","N","V","A","L","I","D","1","2","3">>]}
    \cup {[invitation_code |-> chat_rooms[i].invitation_code] :
             i \in 1..Len(chat_rooms)}

ChatSendMessageInputs == {m \in SendMessageInputs : m.message_type = "text"}

ChatGetMessagesInputs == [room_id : {1, 2}, limit : {50}, offset : {0}]

\* what the room tests and the message tests have in common
InitChat ==
    /\ users = FixtureUsers
    /\ users_id_seq = 2
    /\ nowMs = 0
    /\ jwtSecretEnv = ""
    /\ drawn = {}
    /\ issued = <<>>
    /\ result = NoResult
    /\ hashed = <<>>
    /\ hcall = NoCall
    /\ req = NoReq
    /\ inflight = [p \in 1..MaxInFlight |-> Idle]
    /\ room_members = <<>>
    /\ room_members_id_seq = 0

Call_createChatRoom(input, userId) == CreateChatRoom(input, userId) /\ UNCHANGED <<req, inflight>>
Call_joinRoom(input, userId) == JoinRoom(input, userId) /\ UNCHANGED <<req, inflight>>
Call_sendMessage(input, userId) == SendMessage(input, userId) /\ UNCHANGED <<req, inflight>>
Call_getMessages(input, userId) == GetMessages(input, userId) /\ UNCHANGED <<req, inflight>>
Call_deleteMessage(input, userId) == DeleteMessage(input, userId) /\ UNCHANGED <<req, inflight>>
Call_getUserRooms(input) == GetUserRooms(input) /\ UNCHANGED <<req, inflight>>

\* createChatRoom, joinRoom and getUserRooms, on no room or on the fixture
\* room
InitRooms ==
    /\ InitChat
    /\ messages = <<>>
    /\ messages_id_seq = 0
    /\ \/ chat_rooms = <<>> /\ chat_rooms_id_seq = 0
       \/ chat_rooms = <<FixtureRoom>> /\ chat_rooms_id_seq = 1

NextRooms ==
    \/ Tick
    \/ \E input \in ChatCreateRoomInputs : \E userId \in ChatUserIds :
          Call_createChatRoom(input, userId)
    \/ \E input \in ChatJoinRoomInputs : \E userId \in ChatUserIds :
          Call_joinRoom(input, userId)
    \/ \E input \in GetUserRoomsInputs : Call_getUserRooms(input)

SpecRooms == InitRooms /\ [][NextRooms]_vars

\* sendMessage, getMessages and deleteMessage on the fixture room, which
\* users join; with or without the fixture message
InitMessages ==
    /\ InitChat
    /\ chat_rooms = <<FixtureRoom>>
    /\ chat_rooms_id_seq = 1
    /\ \/ messages = <<>> /\ messages_id_seq = 0
       \/ messages = <<FixtureMessage>> /\ messages_id_seq = 1

NextMessages ==
    \/ Tick
    \/ \E input \in ChatJoinRoomInputs : \E userId \in UserIds(users) :
          Call_joinRoom(input, userId)
    \/ \E input \in ChatSendMessageInputs : \E userId \in UserIds(users) :
          Call_sendMessage(input, userId)
    \/ \E input \in ChatGetMessagesInputs : \E userId \in UserIds(users) :
          Call_getMessages(input, userId)
    \/ \E input \in DeleteMessageInputs : \E userId \in UserIds(users) :
          Call_deleteMessage(input, userId)

SpecMessages == InitMessages /\ [][NextMessages]_vars

\* sendMessage with messages of every type, by members, by users who have not
\* joined and by an id no user has
NextSend ==
    \/ \E input \in ChatJoinRoomInputs : \E userId \in UserIds(users) :
          Call_joinRoom(input, userId)
    \/ \E input \in SendMessageInputs : \E userId \in ChatUserIds :
          Call_sendMessage(input, userId)

SpecSend == InitMessages /\ [][NextSend]_vars

\* one registered user, no room
InitApp ==
    /\ users = <<FixtureUsers[1]>>
    /\ users_id_seq = 1
    /\ nowMs = 0
    /\ jwtSecretEnv = ""
    /\ drawn = {}
    /\ issued = <<>>
    /\ result = NoResult
    /\ hashed = <<>>
    /\ hcall = NoCall
    /\ req = NoReq
    /\ inflight = [p \in 1..MaxInFlight |-> Idle]
    /\ EmptyChat

\* any sequence of registerUser, createChatRoom, joinRoom, sendMessage and
\* deleteMessage calls by the registered users; text and file messages, valid
\* and invalid
NextApp ==
    \/ \E input \in {r \in RegisterInputs : r.username # "testuser" /\ r.email # "test@example.com"} :
          \/ Call_registerUserRejected(input)
          \/ Call_registerUserInserts(input)
    \/ \E input \in ChatCreateRoomInputs : \E userId \in UserIds(users) :
          Call_createChatRoom(input, userId)
    \/ \E input \in {j \in ChatJoinRoomInputs : j.invitation_code # FixtureCode} :
          \E userId \in UserIds(users) : Call_joinRoom(input, userId)
    \/ \E input \in {m \in SendMessageInputs :
                        /\ m.room_id = 1
                        /\ m.message_type \in {"text", "file"}
                        /\ m.content # <<"">>
                        /\ m.file_url # <<>> => m.file_size # <<>>} :
          \E userId \in UserIds(users) : Call_sendMessage(input, userId)
    \/ \E input \in DeleteMessageInputs : \E userId \in UserIds(users) :
          Call_deleteMessage(input, userId)

SpecApp == InitApp /\ [][NextApp]_vars

\* registerUser calls in progress at once, on the users the registration
\* tests start from
SpecRegisterRace ==
    Init /\ [][\E p \in 1..MaxInFlight : \E input \in RegisterInputs :
                  RegisterUser_step(p, input)]_vars

\* createChatRoom and joinRoom calls of the registered user in progress at
\* once, starting without rooms
SpecRoomRace ==
    InitApp /\ [][\E p \in 1..MaxInFlight : \E userId \in UserIds(users) :
                     \/ \E input \in ChatCreateRoomInputs :
                           CreateChatRoom_step(p, input, userId)
                     \/ \E input \in ChatJoinRoomInputs :
                           JoinRoom_step(p, input, userId)]_vars

\* deleteMessage calls in progress at once, on the fixture message
SpecDeleteRace ==
    InitMessages /\ [][\/ Tick
                       \/ \E p \in 1..MaxInFlight :
                             \E input \in DeleteMessageInputs :
                                \E userId \in UserIds(users) :
                                   DeleteMessage_step(p, input, userId)]_vars

\* getMessages and deleteMessage on tables the test has filled directly: a
\* room with two messages of user 1, created at the same or at different
\* times, the newer one possibly deleted, and a second room with one message
InitPages ==
    /\ users = FixtureUsers
    /\ users_id_seq = 2
    /\ nowMs = 2
    /\ jwtSecretEnv = ""
    /\ drawn = {}
    /\ issued = <<>>
    /\ result = NoResult
    /\ hashed = <<>>
    /\ hcall = NoCall
    /\ req = NoReq
    /\ inflight = [p \in 1..MaxInFlight |-> Idle]
    /\ chat_rooms = <<FixtureRoom,
                      [FixtureRoom EXCEPT !.id = 2, !.name = "Second Room",
                                          !.invitation_code = <<"T", "W", "O">>]>>
    /\ chat_rooms_id_seq = 2
    /\ room_members = <<[id |-> 1, room_id |-> 1, user_id |-> 1, joined_at |-> 0],
                        [id |-> 2, room_id |-> 2, user_id |-> 1, joined_at |-> 0]>>
    /\ room_members_id_seq = 2
    /\ \E t \in {0, 1} : \E deleted \in BOOLEAN :
          messages =
              <<[FixtureMessage EXCEPT !.content = <<"Message 1">>],
                [FixtureMessage EXCEPT !.id = 2, !.content = <<"Message 2">>,
                                       !.created_at = t, !.updated_at = t,
                                       !.is_deleted = deleted,
                                       !.deleted_at = IF deleted THEN <<t>>
                                                      ELSE Null],
                [FixtureMessage EXCEPT !.id = 3, !.room_id = 2,
                                       !.content = <<"Elsewhere">>]>>
    /\ messages_id_seq = 3

NextPages ==
    \/ \E input \in GetMessagesInputs : \E userId \in UserIds(users) :
          Call_getMessages(input, userId)
    \/ \E input \in DeleteMessageInputs : \E userId \in UserIds(users) :
          Call_deleteMessage(input, userId)

SpecPages == InitPages /\ [][NextPages]_vars

-----------------------------------------------------------------------------
(* Direct calls of the exported helpers (as the unit tests make them)      *)

\* digests a caller may hand to verifyPassword: the ones produced so far, the
\* most recent one with a further ':'-separated field, with the key cut off,
\* with the salt cut off, strings without a delimiter, the empty string, and
\* an empty salt in front of the key derived from the empty salt
KeyOfEmptySalt(password, iterations) ==
    <<":">> \o ToHex(Pbkdf2(password, <<>>, iterations, KeyLen))

DigestInputs ==
    LET known == {hashed[i].digest : i \in 1..Len(hashed)}
        last == {hashed[i].digest : i \in {Len(hashed)} \ {0}}
    IN  known
        \cup {d \o <<":", "x", "x">> : d \in last}
        \cup {SubSeq(d, 1, 2 * SaltLen + 1) : d \in last}
        \cup {SubSeq(d, 2 * SaltLen + 1, Len(d)) : d \in last}
        \cup {<<>>, <<"x", "x">>, <<":">>}
        \cup {KeyOfEmptySalt(p, it) : p \in Passwords, it \in {10000, 100000}}

CallHashPassword(password) ==
    /\ Len(hashed) < MaxHashed
    /\ \E rnd \in FreshBytes(SaltLen) :
          LET d == hashPassword(password, rnd)
          IN  /\ drawn' = drawn \cup {rnd}
              /\ hashed' = Append(hashed, [module |-> "register",
                                           password |-> password, digest |-> d])
              /\ hcall' = [fn |-> "hashPassword", module |-> "register",
                           password |-> password, digest |-> d, ok |-> TRUE,
                           cmp |-> NoComparison]
    /\ UNCHANGED <<req, inflight>>
    /\ UNCHANGED chatVars
    /\ UNCHANGED <<users, users_id_seq, nowMs, jwtSecretEnv, issued, result>>

CallVerifyPassword(password, digest) ==
    /\ hcall' = [fn |-> "verifyPassword", module |-> "register",
                 password |-> password, digest |-> digest,
                 ok |-> verifyPassword(password, digest),
                 cmp |-> verifyPassword_comparison(password, digest)]
    /\ UNCHANGED <<req, inflight>>
    /\ UNCHANGED chatVars
    /\ UNCHANGED <<users, users_id_seq, nowMs, jwtSecretEnv, issued, result,
                   drawn, hashed>>

CallLoginHashPassword(password) ==
    /\ Len(hashed) < MaxHashed
    /\ \E rnd \in FreshBytes(SaltLen) :
          LET d == login_storedHash(login_hashPassword(password, Undefined, rnd))
          IN  /\ drawn' = drawn \cup {rnd}
              /\ hashed' = Append(hashed, [module |-> "login",
                                           password |-> password, digest |-> d])
              /\ hcall' = [fn |-> "hashPassword", module |-> "login",
                           password |-> password, digest |-> d, ok |-> TRUE,
                           cmp |-> NoComparison]
    /\ UNCHANGED <<req, inflight>>
    /\ UNCHANGED chatVars
    /\ UNCHANGED <<users, users_id_seq, nowMs, jwtSecretEnv, issued, result>>

CallLoginVerifyPassword(password, digest) ==
    /\ hcall' = [fn |-> "verifyPassword", module |-> "login",
                 password |-> password, digest |-> digest,
                 ok |-> login_verifyPassword(password, digest),
                 cmp |-> login_verifyPassword_comparison(password, digest)]
    /\ UNCHANGED <<req, inflight>>
    /\ UNCHANGED chatVars
    /\ UNCHANGED <<users, users_id_seq, nowMs, jwtSecretEnv, issued, result,
                   drawn, hashed>>

InitHash ==
    /\ users = <<>>
    /\ users_id_seq = 0
    /\ nowMs = 0
    /\ jwtSecretEnv = ""
    /\ drawn = {}
    /\ issued = <<>>
    /\ result = NoResult
    /\ hashed = <<>>
    /\ hcall = NoCall
    /\ EmptyChat
    /\ req = NoReq
    /\ inflight = [p \in 1..MaxInFlight |-> Idle]

NextHash ==
    \/ \E p \in Passwords : CallHashPassword(p)
    \/ \E p \in Passwords : CallLoginHashPassword(p)
    \/ \E p \in Passwords : \E d \in DigestInputs : CallVerifyPassword(p, d)
    \/ \E p \in Passwords : \E d \in DigestInputs : CallLoginVerifyPassword(p, d)

SpecHash == InitHash /\ [][NextHash]_vars

-----------------------------------------------------------------------------
(* C2: verifying p against the digest just produced by hashing p returns   *)
(* true, in the registration module and, for salt + ':' + hash, in the     *)
(* login module.                                                           *)

VerifyIn(module, password, digest) ==
    IF module = "register" THEN verifyPassword(password, digest)
    ELSE login_verifyPassword(password, digest)

C2_VerifyOwnHash ==
    /\ \A i \in 1..Len(hashed) :
          VerifyIn(hashed[i].module, hashed[i].password, hashed[i].digest)
    /\ (hcall.fn = "verifyPassword"
        /\ \E i \in 1..Len(hashed) :
              /\ hashed[i].module = hcall.module
              /\ hashed[i].password = hcall.password
              /\ hashed[i].digest = hcall.digest)
       => hcall.ok

C2_Witness ==
    /\ \E i, j \in 1..Len(hashed) :
          hashed[i].module = "register" /\ hashed[j].module = "login"
    /\ hcall.fn = "verifyPassword"
    /\ hcall.module = "login"
    /\ hcall.ok
    /\ \E i \in 1..Len(hashed) :
          /\ hashed[i].module = "login"
          /\ hashed[i].password = hcall.password
          /\ hashed[i].digest = hcall.digest

-----------------------------------------------------------------------------
(* C1: every protected operation (createChatRoom, joinRoom, sendMessage,   *)
(* getMessages, deleteMessage) proceeds only after the bearer token of the *)
(* request has been verified (signature and expiry) and acts as the        *)
(* identity in the token's claims; a request with no token or an invalid   *)
(* token never reaches a handler.                                          *)

ProtectedOperations ==
    {"createChatRoom", "joinRoom", "sendMessage", "getMessages", "deleteMessage"}

\* the token's signature is the one the server computes over its first two
\* parts, and the token has not expired at time ms
TokenVerifies(token, ms, env) ==
    /\ \E secret \in {IF env # "" THEN env ELSE "fallback_secret_key",
                      registerUser_secret(env)} :
          token.signature = Sha256Base64Url(<<token.header, token.payload, secret>>)
    /\ "exp" \in Keys(decodeToken(token))
    /\ ms \div 1000 < Val(decodeToken(token), "exp")

C1_ProtectedNeedsVerifiedToken ==
    req.handler \in ProtectedOperations =>
        /\ req.authorization.kind = "bearer"
        /\ TokenVerifies(req.authorization.token, nowMs, jwtSecretEnv)
        /\ req.userId = Val(decodeToken(req.authorization.token), "userId")

-----------------------------------------------------------------------------
(* C4: verifyPassword returns false for every stored digest that does not  *)
(* parse into exactly two non-empty ':'-delimited fields (no delimiter,    *)
(* empty digest, empty salt, empty key, more than two fields), whatever    *)
(* the plaintext.                                                          *)

TwoNonEmptyFields(digest) ==
    LET parts == Split(digest)
    IN  Len(parts) = 2 /\ parts[1] # <<>> /\ parts[2] # <<>>

C4_MalformedDigestRejected ==
    (hcall.fn = "verifyPassword" /\ ~TwoNonEmptyFields(hcall.digest))
    => ~hcall.ok

-----------------------------------------------------------------------------
(* Hashing calls and registrations side by side                            *)

NextSalt ==
    \/ \E p \in Passwords : CallHashPassword(p)
    \/ \E p \in Passwords : CallLoginHashPassword(p)
    \/ \E input \in RegisterInputs : Call_registerUserRejected(input)
    \/ \E input \in RegisterInputs : Call_registerUserInserts(input)

SpecSalt == InitHash /\ [][NextSalt]_vars

(* C5: every hashing operation draws a fresh salt: two hashPassword calls  *)
(* on the same plaintext return digests that differ (in their salts) and   *)
(* both verify against the plaintext; two registrations never store equal  *)
(* password_hash values.                                                   *)

SaltOf(digest) == Part(Split(digest), 1)

C5_FreshSalt ==
    /\ \A i, j \in 1..Len(hashed) :
          (i < j /\ hashed[i].module = hashed[j].module
                 /\ hashed[i].password = hashed[j].password)
          => /\ hashed[i].digest # hashed[j].digest
             /\ SaltOf(hashed[i].digest) # SaltOf(hashed[j].digest)
             /\ VerifyIn(hashed[i].module, hashed[i].password, hashed[i].digest)
             /\ VerifyIn(hashed[j].module, hashed[j].password, hashed[j].digest)
    /\ \A i, j \in 1..Len(users) :
          i # j => users[i].password_hash # users[j].password_hash

C5_Witness ==
    /\ Len(users) = 2
    /\ users[1].password_hash # users[2].password_hash
    /\ \E i, j \in 1..Len(hashed) :
          /\ i < j
          /\ hashed[i].module = "register" /\ hashed[j].module = "register"
          /\ hashed[i].password = hashed[j].password
          /\ hashed[i].digest = users[1].password_hash
          /\ hashed[j].digest = users[2].password_hash
    /\ \E k \in 1..Len(hashed) : hashed[k].module = "login"

-----------------------------------------------------------------------------
(* C3: a user created by registerUser with password p can afterwards log   *)
(* in with loginUser(email, p).                                            *)

\* the stored user with this email was registered with this password
RegisteredWith(email, password) ==
    \E i \in 1..Len(users) : \E k \in 1..Len(hashed) :
        /\ users[i].email = email
        /\ hashed[k].module = "register"
        /\ hashed[k].digest = users[i].password_hash
        /\ hashed[k].password = password

C3_RegisteredUserCanLogin ==
    (result.op = "loginUser"
     /\ RegisteredWith(result.input.email, result.input.password))
    => result.error = ""

-----------------------------------------------------------------------------
(* C6: every issued token carries the caller's claims merged with iat (the *)
(* issue time in Unix seconds) and exp.  As stated: exp - iat = 86400 for  *)
(* tokens issued at login and at registration.                             *)

CarriesClaims(e) ==
    LET c == decodeToken(e.token)
    IN  /\ Keys(c) = Keys(e.claims) \cup {"iat", "exp"}
        /\ \A k \in Keys(e.claims) : Val(c, k) = Val(e.claims, k)
        /\ Val(c, "iat") = e.at \div 1000

Ttl(e) == Val(decodeToken(e.token), "exp") - Val(decodeToken(e.token), "iat")

C6_TtlIsOneDay ==
    \A n \in 1..Len(issued) : CarriesClaims(issued[n]) /\ Ttl(issued[n]) = 86400

(* C6 as amended: exp - iat is 86400 for a token issued at login and       *)
(* 604800 (seven days) for a token issued at registration.                 *)
C6_TtlPerIssuer ==
    \A n \in 1..Len(issued) :
        /\ CarriesClaims(issued[n])
        /\ issued[n].by = "loginUser" => Ttl(issued[n]) = 86400
        /\ issued[n].by = "registerUser" => Ttl(issued[n]) = 604800

C6_Witness ==
    /\ \E n \in 1..Len(issued) : issued[n].by = "loginUser"
    /\ \E n \in 1..Len(issued) : issued[n].by = "registerUser"

-----------------------------------------------------------------------------
(* C7: two sequential issuances with identical claims at different         *)
(* wall-clock times produce different tokens, and the earlier token's iat  *)
(* is strictly less than the later one's.                                  *)

Iat(e) == Val(decodeToken(e.token), "iat")

C7_DifferentTimesDifferentTokens ==
    \A m, n \in 1..Len(issued) :
        (m < n /\ issued[m].by = issued[n].by
               /\ issued[m].claims = issued[n].claims
               /\ issued[m].at < issued[n].at)
        => /\ issued[m].token # issued[n].token
           /\ Iat(issued[m]) < Iat(issued[n])

(* C7 as amended: two sequential issuances with identical claims in        *)
(* different Unix seconds produce different tokens, and the earlier        *)
(* token's iat is strictly less than the later one's.                      *)
C7_DifferentSecondsDifferentTokens ==
    \A m, n \in 1..Len(issued) :
        (m < n /\ issued[m].by = issued[n].by
               /\ issued[m].claims = issued[n].claims
               /\ issued[m].at \div 1000 < issued[n].at \div 1000)
        => /\ issued[m].token # issued[n].token
           /\ Iat(issued[m]) < Iat(issued[n])

C7_Witness ==
    \E m, n \in 1..Len(issued) :
        /\ m < n
        /\ issued[m].by = "loginUser" /\ issued[n].by = "loginUser"
        /\ issued[m].claims = issued[n].claims
        /\ issued[m].at \div 1000 < issued[n].at \div 1000

-----------------------------------------------------------------------------
(* C8: loginUser fails with 'Invalid email or password' and returns no     *)
(* token when no user has exactly the given email, when the password does  *)
(* not verify against the stored digest, or when the stored digest is      *)
(* malformed; the failure is the same in all these cases.                  *)

-----------------------------------------------------------------------------
(* C9: a successful loginUser returns the stored user record, every field  *)
(* equal to the stored one, with a token whose claims carry that user's id *)
(* and email; loginUser never changes the users table.                     *)

C9_LoginReturnsStoredUser ==
    /\ [](result.op = "loginUser" /\ result.error = ""
          => \E i \in 1..Len(users) :
                /\ users[i].email = result.input.email
                /\ result.user = users[i]
                /\ Val(decodeToken(result.token), "userId") = users[i].id
                /\ Val(decodeToken(result.token), "email") = users[i].email)
    /\ [][result'.op = "loginUser"
          => users' = users /\ users_id_seq' = users_id_seq]_vars

C9_Witness ==
    /\ result.op = "loginUser"
    /\ result.error = ""
    /\ result.user \in {users[i] : i \in 1..Len(users)}
    /\ result.token # NoToken

-----------------------------------------------------------------------------
(* C10: registerUser rejects a registration whose username is in use with  *)
(* 'Username already exists' and one whose email is in use with 'Email     *)
(* already exists'; a rejected registration leaves the users table         *)
(* unchanged and returns no token; no two users share a username or an     *)
(* email.  (When the username is in use by one row and the email by        *)
(* another, the error names one of the two.)                               *)

UsernameInUse(name) == \E i \in 1..Len(users) : users[i].username = name
EmailInUse(email) == \E i \in 1..Len(users) : users[i].email = email

C10_DuplicatesRejected ==
    /\ [](\A i, j \in 1..Len(users) :
             i # j => /\ users[i].username # users[j].username
                      /\ users[i].email # users[j].email)
    /\ [][(result'.op = "registerUser" /\ result' # result) =>
            LET u == UsernameInUse(result'.input.username)
                e == EmailInUse(result'.input.email)
            IN  /\ (u /\ ~e) => result'.error = "Username already exists"
                /\ (e /\ ~u) => result'.error = "Email already exists"
                /\ (u \/ e) =>
                      /\ result'.error \in {"Username already exists",
                                            "Email already exists"}
                      /\ users' = users
                      /\ result'.token = NoToken
                      /\ result'.user = NoUser
                      /\ issued' = issued]_vars

C10_Witness ==
    /\ result.op = "registerUser"
    /\ result.error = "Email already exists"
    /\ result.token = NoToken
    /\ EmailInUse(result.input.email)
    /\ ~UsernameInUse(result.input.username)

-----------------------------------------------------------------------------
(* C11: after a successful registerUser(username, email, password) the     *)
(* users table holds exactly one new row, with that username and email,    *)
(* whose password_hash has the form salt:key (both hex-encoded), differs   *)
(* from the plaintext password and verifies against it; the returned       *)
(* token's claims carry the new row's id, username and email.              *)

\* the characters of a password
PasswordChars(password) ==
    IF password = "password123"
    THEN <<"p","a","s","s","w","o","r","d","1","2","3">>
    ELSE <<"p","a","s","s","w","o","r","d","4","5","6">>

IsHex(s) == \A i \in 1..Len(s) : IsHexChar(s[i])

\* salt:key, a hex-encoded salt of SaltLen bytes and a hex-encoded key of
\* KeyLen bytes
SaltKeyHex(digest) ==
    LET parts == Split(digest)
    IN  /\ Len(parts) = 2
        /\ Len(parts[1]) = 2 * SaltLen /\ IsHex(parts[1])
        /\ Len(parts[2]) = 2 * KeyLen /\ IsHex(parts[2])

C11_RegistrationStoresDigest ==
    [][(result'.op = "registerUser" /\ result'.error = "" /\ result' # result)
       => /\ Len(users') = Len(users) + 1
          /\ SubSeq(users', 1, Len(users)) = users
          /\ LET row == users'[Len(users')]
                 claims == decodeToken(result'.token)
             IN  /\ row.username = result'.input.username
                 /\ row.email = result'.input.email
                 /\ row.id \notin UserIds(users)
                 /\ result'.user = row
                 /\ SaltKeyHex(row.password_hash)
                 /\ row.password_hash # PasswordChars(result'.input.password)
                 /\ verifyPassword(result'.input.password, row.password_hash)
                 /\ {"userId", "username", "email"} \subseteq Keys(claims)
                 /\ Val(claims, "userId") = row.id
                 /\ Val(claims, "username") = row.username
                 /\ Val(claims, "email") = row.email]_vars

C11_Witness ==
    /\ result.op = "registerUser"
    /\ result.error = ""
    /\ Len(users) = 2
    /\ result.user = users[2]
    /\ SaltKeyHex(users[2].password_hash)
    /\ Val(decodeToken(result.token), "username") = users[2].username

-----------------------------------------------------------------------------
(* C12: every password verification compares the recomputed key with the   *)
(* stored key in constant time: an equal-length check first, then a        *)
(* comparison that examines every byte and does not stop at the first      *)
(* mismatch, in the registration module's verifier as in the login         *)
(* module's.                                                               *)

C12_ConstantTimeComparison ==
    (hcall.fn = "verifyPassword" /\ hcall.cmp.reached /\ hcall.cmp.equalLength)
    => hcall.cmp.examined = hcall.cmp.length

\* the login module's verifier alone examines every byte
C12_LoginVerifierConstantTime ==
    (hcall.fn = "verifyPassword" /\ hcall.module = "login"
     /\ hcall.cmp.reached /\ hcall.cmp.equalLength)
    => hcall.cmp.examined = hcall.cmp.length

-----------------------------------------------------------------------------
(* C13: the signature part of every issued token is a keyed hash           *)
(* (HMAC-class) over the string 'header.claims' with the server secret as  *)
(* key, not a bare hash of the data concatenated with the secret; for      *)
(* tokens issued at registration and at login.                             *)

\* createHmac('sha256', key).update(data).digest('base64url'): a keyed hash,
\* a value no unkeyed hash of any data equals
HmacSha256Base64Url(key, data) == [hmac |-> [key |-> key, data |-> data]]

\* the secret the issuer `by` signs with
ServerSecret(by, env) ==
    IF by = "registerUser" THEN registerUser_secret(env)
    ELSE IF env # "" THEN env ELSE "fallback_secret_key"

C13_SignatureIsKeyedHash ==
    \A n \in 1..Len(issued) :
        LET t == issued[n].token
        IN  /\ t.signature = HmacSha256Base64Url(
                                 ServerSecret(issued[n].by, jwtSecretEnv),
                                 <<t.header, t.payload>>)
            /\ t.signature # Sha256Base64Url(
                                 <<t.header, t.payload,
                                   ServerSecret(issued[n].by, jwtSecretEnv)>>)

-----------------------------------------------------------------------------
(* C14: sendMessage and getMessages are rejected with 'User is not a       *)
(* member of this room' whenever the calling user has no membership in the *)
(* addressed room, including when the room does not exist; a rejected      *)
(* sendMessage stores no message and a rejected getMessages returns no     *)
(* message.  A user who becomes a member is accepted from then on.         *)

IsMember(room_id, user_id) ==
    \E i \in 1..Len(room_members) :
        room_members[i].room_id = room_id /\ room_members[i].user_id = user_id

NotAMember == "User is not a member of this room"

C14_MembersOnly ==
    [][/\ (result'.op \in {"sendMessage", "getMessages"} /\ result' # result)
          => IF IsMember(result'.input.room_id, result'.userId)
             THEN result'.error # NotAMember
             ELSE /\ result'.error = NotAMember
                  /\ result'.value = <<>>
                  /\ messages' = messages
                  /\ messages_id_seq' = messages_id_seq
       /\ \A r \in {1, 2} : \A u \in ChatUserIds :
             IsMember(r, u) => IsMember(r, u)']_vars

C14_Witness ==
    /\ result.op = "sendMessage"
    /\ result.error = ""
    /\ IsMember(result.input.room_id, result.userId)
    /\ Len(messages) = 1
    /\ messages[1].user_id = result.userId
    /\ messages[1].room_id = result.input.room_id
    /\ result.userId # FixtureRoom.created_by

-----------------------------------------------------------------------------
(* C15: deleteMessage succeeds only for the user who authored the message: *)
(* for a message id that does not exist and for a message authored by      *)
(* another user it fails with the same error ('Message not found or you    *)
(* are not authorized to delete this message'), and the messages table is  *)
(* unchanged.                                                              *)

AuthoredBy(message_id, user_id) ==
    \E i \in 1..Len(messages) :
        messages[i].id = message_id /\ messages[i].user_id = user_id

NotFoundOrNotAuthorized ==
    "Message not found or you are not authorized to delete this message"

C15_OnlyAuthorDeletes ==
    [][(result'.op = "deleteMessage" /\ result' # result)
       => /\ result'.error = "" =>
                AuthoredBy(result'.input.message_id, result'.userId)
          /\ ~AuthoredBy(result'.input.message_id, result'.userId)
             => /\ result'.error = NotFoundOrNotAuthorized
                /\ result'.value = <<>>
                /\ messages' = messages]_vars

C15_Witness ==
    /\ result.op = "deleteMessage"
    /\ result.error = NotFoundOrNotAuthorized
    /\ \E i \in 1..Len(messages) :
          /\ messages[i].id = result.input.message_id
          /\ messages[i].user_id # result.userId
          /\ ~messages[i].is_deleted

-----------------------------------------------------------------------------
(* C16: a successful deleteMessage is a soft delete: the row remains,      *)
(* is_deleted becomes true, deleted_at is set, and id, room_id, user_id,   *)
(* content, message_type, the four file fields and created_at keep their   *)
(* values; the returned message shows the preserved content and the        *)
(* author's username.  As stated: updated_at becomes strictly later than   *)
(* before.                                                                 *)

\* the step is a successful deleteMessage
DeleteSucceeds == result'.op = "deleteMessage" /\ result'.error = "" /\ result' # result

\* row `after` is row `before` soft-deleted
SoftDeleted(before, after) ==
    /\ after.is_deleted
    /\ after.deleted_at # Null
    /\ after.id = before.id
    /\ after.room_id = before.room_id
    /\ after.user_id = before.user_id
    /\ after.content = before.content
    /\ after.message_type = before.message_type
    /\ after.file_url = before.file_url
    /\ after.file_name = before.file_name
    /\ after.file_size = before.file_size
    /\ after.file_type = before.file_type
    /\ after.created_at = before.created_at

\* a successful deleteMessage soft-deletes the addressed row, leaves the
\* others alone and returns the row with the author's username
SoftDeleteStep ==
    DeleteSucceeds =>
        /\ Len(messages') = Len(messages)
        /\ \E i \in 1..Len(messages) :
              /\ messages[i].id = result'.input.message_id
              /\ ~messages[i].is_deleted
              /\ SoftDeleted(messages[i], messages'[i])
              /\ \A j \in 1..Len(messages) : j # i => messages'[j] = messages[j]
              /\ Len(result'.value) = 1
              /\ result'.value[1] = WithUsername(messages'[i])
              /\ result'.value[1].content = messages[i].content
              /\ \E u \in 1..Len(users) :
                    /\ users[u].id = messages[i].user_id
                    /\ result'.value[1].username = users[u].username

\* the row a successful deleteMessage addresses, before and after
Deleted(i) == DeleteSucceeds /\ messages[i].id = result'.input.message_id

-----------------------------------------------------------------------------
(* C17: deleteMessage by the author on a message that is already deleted   *)
(* fails with 'Message is already deleted' and leaves the row unchanged    *)
(* (deleted_at and updated_at keep the values of the first deletion); once *)
(* is_deleted is true no operation sets it back to false.                  *)

AlreadyDeleted == "Message is already deleted"

C17_DeletedStaysDeleted ==
    [][/\ (result'.op = "deleteMessage" /\ result' # result)
          => \A i \in 1..Len(messages) :
                (/\ messages[i].id = result'.input.message_id
                 /\ messages[i].user_id = result'.userId
                 /\ messages[i].is_deleted)
                => /\ result'.error = AlreadyDeleted
                   /\ result'.value = <<>>
                   /\ messages' = messages
       /\ \A i \in 1..Len(messages) :
             messages[i].is_deleted
             => /\ i <= Len(messages')
                /\ messages'[i].id = messages[i].id
                /\ messages'[i].is_deleted
                /\ messages'[i].deleted_at = messages[i].deleted_at
                /\ messages'[i].updated_at = messages[i].updated_at]_vars

C17_Witness ==
    /\ result.op = "deleteMessage"
    /\ result.error = AlreadyDeleted
    /\ \E i \in 1..Len(messages) :
          /\ messages[i].id = result.input.message_id
          /\ messages[i].user_id = result.userId
          /\ messages[i].is_deleted
          /\ messages[i].deleted_at # Null
          /\ messages[i].updated_at < nowMs

-----------------------------------------------------------------------------
(* C18: joinRoom fails with 'Invalid invitation code' when no room has the *)
(* given invitation code, and with 'User is already a member of this room' *)
(* when the user already has a membership in the room the code designates; *)
(* in both cases room_members and chat_rooms are unchanged.                *)

RoomsWithCode(code) ==
    {i \in 1..Len(chat_rooms) : chat_rooms[i].invitation_code = code}

JoinStep == result'.op = "joinRoom" /\ result' # result

C18_JoinRejections ==
    [][JoinStep =>
        /\ RoomsWithCode(result'.input.invitation_code) = {}
           => /\ result'.error = "Invalid invitation code"
              /\ result'.value = <<>>
              /\ room_members' = room_members
              /\ chat_rooms' = chat_rooms
        /\ \A r \in RoomsWithCode(result'.input.invitation_code) :
              IsMember(chat_rooms[r].id, result'.userId)
              => /\ result'.error = "User is already a member of this room"
                 /\ result'.value = <<>>
                 /\ room_members' = room_members
                 /\ chat_rooms' = chat_rooms]_vars

C18_Witness ==
    /\ result.op = "joinRoom"
    /\ result.error = "User is already a member of this room"
    /\ \E r \in RoomsWithCode(result.input.invitation_code) :
          /\ IsMember(chat_rooms[r].id, result.userId)
          /\ Cardinality({i \in 1..Len(room_members) :
                             /\ room_members[i].room_id = chat_rooms[r].id
                             /\ room_members[i].user_id = result.userId}) = 1

-----------------------------------------------------------------------------
(* C19: a successful joinRoom(code, user) adds exactly one membership row, *)
(* for (the room whose invitation_code equals code, user), returns that    *)
(* room's record unchanged and changes no other membership; the room's     *)
(* creator may join with the room's own code when not yet a member, and    *)
(* several distinct users may join the same room.                          *)

C19_JoinAddsOneMembership ==
    [][(JoinStep /\ result'.error = "") =>
        /\ chat_rooms' = chat_rooms
        /\ Len(room_members') = Len(room_members) + 1
        /\ SubSeq(room_members', 1, Len(room_members)) = room_members
        /\ \E r \in RoomsWithCode(result'.input.invitation_code) :
              LET row == room_members'[Len(room_members')]
              IN  /\ row.room_id = chat_rooms[r].id
                  /\ row.user_id = result'.userId
                  /\ ~IsMember(chat_rooms[r].id, result'.userId)
                  /\ result'.value = <<chat_rooms[r]>>]_vars

C19_Witness ==
    /\ result.op = "joinRoom"
    /\ result.error = ""
    /\ Len(room_members) = 2
    /\ room_members[1].room_id = room_members[2].room_id
    /\ room_members[1].user_id # room_members[2].user_id
    /\ \E r \in 1..Len(chat_rooms) :
          /\ chat_rooms[r].id = room_members[2].room_id
          /\ chat_rooms[r].created_by = room_members[2].user_id
          /\ result.userId = chat_rooms[r].created_by
          /\ result.value = <<chat_rooms[r]>>

-----------------------------------------------------------------------------
(* C20: a successful createChatRoom(input, user) creates exactly one room  *)
(* with the given name and description, created_by equal to user and an    *)
(* 8-character invitation code over [A-Z0-9], and adds exactly one         *)
(* membership row for that room, the creator's; no other room or           *)
(* membership is changed.                                                  *)

IsInvitationCode(code) ==
    /\ Len(code) = 8
    /\ \A i \in 1..Len(code) :
          \E k \in 1..Len(InvitationCharacters) : InvitationCharacters[k] = code[i]

C20_CreateAddsRoomAndCreator ==
    [][(result'.op = "createChatRoom" /\ result'.error = "" /\ result' # result)
       => /\ Len(chat_rooms') = Len(chat_rooms) + 1
          /\ SubSeq(chat_rooms', 1, Len(chat_rooms)) = chat_rooms
          /\ Len(room_members') = Len(room_members) + 1
          /\ SubSeq(room_members', 1, Len(room_members)) = room_members
          /\ LET room == chat_rooms'[Len(chat_rooms')]
                 member == room_members'[Len(room_members')]
             IN  /\ room.name = result'.input.name
                 /\ room.description = result'.input.description
                 /\ room.created_by = result'.userId
                 /\ IsInvitationCode(room.invitation_code)
                 /\ \A i \in 1..Len(chat_rooms) :
                       /\ chat_rooms[i].id # room.id
                       /\ chat_rooms[i].invitation_code # room.invitation_code
                 /\ member.room_id = room.id
                 /\ member.user_id = result'.userId
                 /\ result'.value = <<room>>]_vars

C20_Witness ==
    /\ result.op = "createChatRoom"
    /\ result.error = ""
    /\ Len(chat_rooms) = 2
    /\ result.value = <<chat_rooms[2]>>
    /\ chat_rooms[2].created_by = result.userId
    /\ IsInvitationCode(chat_rooms[2].invitation_code)
    /\ Cardinality({i \in 1..Len(room_members) :
                       room_members[i].room_id = chat_rooms[2].id}) = 1
    /\ IsMember(chat_rooms[2].id, result.userId)
    /\ \E i \in 1..Len(room_members) : room_members[i].room_id = chat_rooms[1].id

-----------------------------------------------------------------------------
(* C21: createChatRoom generates a unique invitation code: the code of a   *)
(* newly created room differs from the code of every existing room, so no  *)
(* two rooms share an invitation code and creating a room never fails      *)
(* because the generated code is already taken.                            *)

DuplicateKey == "duplicate key value violates unique constraint"

\* the stored rooms have pairwise different codes
C21_StoredCodesDistinct ==
    \A i, j \in 1..Len(chat_rooms) :
        i # j => chat_rooms[i].invitation_code # chat_rooms[j].invitation_code

C21_UniqueInvitationCode ==
    /\ C21_StoredCodesDistinct
    /\ ~(result.op = "createChatRoom" /\ result.error = DuplicateKey)

-----------------------------------------------------------------------------
(* C22: sendMessage by a room member rejects a 'text' message that has no  *)
(* (or empty) content with 'Text messages must have content' and a 'file', *)
(* 'image' or 'document' message that has no file_url with 'File messages  *)
(* must have file_url'; a rejected message is not stored; a non-member     *)
(* sending an invalid message gets the membership error.                   *)

SendStep == result'.op = "sendMessage" /\ result' # result

\* an optional string that is absent or empty
Missing(opt) == opt = <<>> \/ opt = <<"">>

InvalidMessage(input) ==
    \/ input.message_type = "text" /\ Missing(input.content)
    \/ input.message_type \in {"file", "image", "document"}
       /\ Missing(input.file_url)

C22_InvalidMessagesRejected ==
    [][(SendStep /\ InvalidMessage(result'.input))
       => /\ messages' = messages
          /\ messages_id_seq' = messages_id_seq
          /\ result'.value = <<>>
          /\ result'.error =
                IF ~IsMember(result'.input.room_id, result'.userId)
                THEN NotAMember
                ELSE IF result'.input.message_type = "text"
                THEN "Text messages must have content"
                ELSE "File messages must have file_url"]_vars

C22_Witness ==
    /\ result.op = "sendMessage"
    /\ result.input.message_type = "file"
    /\ Missing(result.input.file_url)
    /\ IsMember(result.input.room_id, result.userId)
    /\ result.error = "File messages must have file_url"
    /\ Len(messages) < MaxMessages

-----------------------------------------------------------------------------
(* C23: a successful sendMessage(input, user) stores exactly one new       *)
(* message with the input's room_id, the caller's user_id, the given       *)
(* message_type, is_deleted false and deleted_at null, every optional      *)
(* field that was not supplied stored as null, and returns that message    *)
(* with the sender's username; no existing message is changed.             *)

OptionalFields == {"content", "file_url", "file_name", "file_size", "file_type"}

UsernameOf(user_id) ==
    users[CHOOSE i \in 1..Len(users) : users[i].id = user_id].username

-----------------------------------------------------------------------------
(* C24: for a member of the room, getMessages(room, limit, offset) returns *)
(* exactly the slice [offset, offset + limit) of all messages of the room  *)
(* ordered newest first by creation time, soft-deleted messages included   *)
(* with is_deleted true, each with its author's username; hence at most    *)
(* limit messages, none from another room, and pages taken at consecutive  *)
(* offsets are disjoint and together give every message of the room once.  *)

RoomMessages(room_id) == {i \in 1..Len(messages) : messages[i].room_id = room_id}

\* the listings of the room's messages, newest first
NewestFirst(room_id) ==
    {o \in [1..Cardinality(RoomMessages(room_id)) -> RoomMessages(room_id)] :
        /\ \A a, b \in DOMAIN o : a # b => o[a] # o[b]
        /\ \A a, b \in DOMAIN o :
              a < b => messages[o[a]].created_at >= messages[o[b]].created_at}

\* rows is the slice [offset, offset + limit) of the listing o
IsPage(rows, o, limit, offset) ==
    /\ Len(rows) = IF Len(o) <= offset THEN 0
                   ELSE IF Len(o) - offset < limit THEN Len(o) - offset
                   ELSE limit
    /\ \A k \in 1..Len(rows) :
          /\ \A f \in DOMAIN messages[o[offset + k]] :
                rows[k][f] = messages[o[offset + k]][f]
          /\ rows[k].username = UsernameOf(messages[o[offset + k]].user_id)

GetStep ==
    /\ result'.op = "getMessages"
    /\ result' # result
    /\ result'.error = ""

\* each call by itself returns a page of a newest-first listing
C24_PageIsSlice ==
    [][GetStep
       => /\ IsMember(result'.input.room_id, result'.userId)
          /\ \E o \in NewestFirst(result'.input.room_id) :
                IsPage(result'.value, o, result'.input.limit, result'.input.offset)
          /\ Len(result'.value) <= result'.input.limit
          /\ \A k \in 1..Len(result'.value) :
                result'.value[k].room_id = result'.input.room_id]_vars

\* a call for the page that follows the page the previous call returned
NextPageStep ==
    /\ GetStep
    /\ result.op = "getMessages"
    /\ result.error = ""
    /\ result'.input.room_id = result.input.room_id
    /\ result'.input.limit = result.input.limit
    /\ result'.input.offset = result.input.offset + result.input.limit

C24_Pagination ==
    [][/\ GetStep
          => \E o \in NewestFirst(result'.input.room_id) :
                IsPage(result'.value, o, result'.input.limit, result'.input.offset)
       /\ NextPageStep
          => /\ \A a \in 1..Len(result.value) : \A b \in 1..Len(result'.value) :
                   result.value[a].id # result'.value[b].id
             /\ (result.input.offset = 0
                 /\ Cardinality(RoomMessages(result.input.room_id))
                       <= 2 * result.input.limit)
                => \A i \in RoomMessages(result.input.room_id) :
                      \/ \E a \in 1..Len(result.value) :
                            result.value[a].id = messages[i].id
                      \/ \E b \in 1..Len(result'.value) :
                            result'.value[b].id = messages[i].id]_vars

\* the second of two pages of one message each, holding a deleted message
C24_Witness ==
    /\ result.op = "getMessages"
    /\ result.error = ""
    /\ result.input.limit = 1
    /\ result.input.offset = 1
    /\ Len(result.value) = 1
    /\ result.value[1].is_deleted
    /\ Cardinality(RoomMessages(result.input.room_id)) = 2

-----------------------------------------------------------------------------
(* C25: getUserRooms(user) returns exactly one entry for each room in      *)
(* which the user has a membership and no entry for any other room,        *)
(* ordered by the room's updated_at descending; each entry has is_member   *)
(* true and member_count equal to the number of members of that room; a    *)
(* user with no membership gets an empty list.                             *)

GetUserRoomsStep == result'.op = "getUserRooms" /\ result' # result

RoomsOf(user_id) ==
    {r \in 1..Len(chat_rooms) : IsMember(chat_rooms[r].id, user_id)}

MembersOf(room_id) ==
    {room_members[i].user_id :
        i \in {j \in 1..Len(room_members) : room_members[j].room_id = room_id}}

C25_UserRoomsListed ==
    [][GetUserRoomsStep
       => LET rows == result'.value
              mine == RoomsOf(result'.input.user_id)
          IN  /\ result'.error = ""
              /\ Len(rows) = Cardinality(mine)
              /\ \A r \in mine :
                    Cardinality({k \in 1..Len(rows) :
                                    rows[k].id = chat_rooms[r].id}) = 1
              /\ \A k \in 1..Len(rows) :
                    /\ \E r \in mine :
                          \A f \in DOMAIN chat_rooms[r] :
                             rows[k][f] = chat_rooms[r][f]
                    /\ rows[k].is_member
                    /\ rows[k].member_count =
                          Cardinality(MembersOf(rows[k].id))
              /\ \A a, b \in 1..Len(rows) :
                    a < b => rows[a].updated_at >= rows[b].updated_at
              /\ mine = {} => rows = <<>>]_vars

C25_Witness ==
    /\ result.op = "getUserRooms"
    /\ Len(result.value) = 2
    /\ result.value[1].updated_at > result.value[2].updated_at
    /\ Cardinality(RoomsOf(result.input.user_id)) = 2
    /\ \E u \in UserIds(users) : RoomsOf(u) = {}

-----------------------------------------------------------------------------
(* C30: after any sequence of registerUser, createChatRoom, joinRoom,      *)
(* sendMessage and deleteMessage calls, every stored message was sent by a *)
(* user who has a membership in the message's room, refers to an existing  *)
(* room and an existing user, has non-empty content if its type is 'text'  *)
(* and a non-empty file_url otherwise, and no message row is ever removed. *)

MessageSound(m) ==
    /\ IsMember(m.room_id, m.user_id)
    /\ \E r \in 1..Len(chat_rooms) : chat_rooms[r].id = m.room_id
    /\ m.user_id \in UserIds(users)
    /\ IF m.message_type = "text"
       THEN m.content # Null /\ m.content # <<"">>
       ELSE m.file_url # Null /\ m.file_url # <<"">>

MessagesSound == \A i \in 1..Len(messages) : MessageSound(messages[i])

C30_MessagesSound ==
    [][/\ MessagesSound'
       /\ Len(messages') >= Len(messages)
       /\ \A i \in 1..Len(messages) : messages'[i].id = messages[i].id]_vars

\* a deleted file message of a user who joined a room someone else created
C30_Witness ==
    /\ MessagesSound
    /\ \E i \in 1..Len(messages) :
          /\ messages[i].message_type = "file"
          /\ messages[i].is_deleted
          /\ \E r \in 1..Len(chat_rooms) :
                /\ chat_rooms[r].id = messages[i].room_id
                /\ chat_rooms[r].created_by # messages[i].user_id

-----------------------------------------------------------------------------
(* C26: there is at most one membership row per (room, user) pair, also    *)
(* when createChatRoom and joinRoom calls of the same user for the same    *)
(* room are interleaved: two joinRoom calls in progress at once cannot     *)
(* both pass the already-a-member check and both insert a membership.      *)

C26_OneMembershipPerPair ==
    \A i, j \in 1..Len(room_members) :
        (/\ room_members[i].room_id = room_members[j].room_id
         /\ room_members[i].user_id = room_members[j].user_id) => i = j

-----------------------------------------------------------------------------
(* C27: for each message at most one deleteMessage call ever succeeds,     *)
(* also when several calls by the author are interleaved: once a deletion  *)
(* has set deleted_at, no later or concurrent call reports success or      *)
(* overwrites deleted_at.                                                  *)

\* two calls that have both returned the deleted message
TwoDeletionsSucceeded ==
    \E p, q \in 1..MaxInFlight :
        /\ p # q
        /\ inflight[p].op = "deleteMessage" /\ inflight[p].pc = "returned"
        /\ inflight[q].op = "deleteMessage" /\ inflight[q].pc = "returned"
        /\ inflight[p].input.message_id = inflight[q].input.message_id

C27_OneDeletionSucceeds ==
    [][/\ ~TwoDeletionsSucceeded'
       /\ \A i \in 1..Len(messages) :
             messages[i].is_deleted =>
                messages'[i].deleted_at = messages[i].deleted_at]_vars

-----------------------------------------------------------------------------
(* C28: when two registerUser calls with the same username (or the same    *)
(* email) are interleaved, exactly one of them creates a user and returns  *)
(* a token, and the other one fails with 'Username already exists'         *)
(* (respectively 'Email already exists') without creating a user.          *)

C28_LoserToldUserExists ==
    [][(/\ result' # result
        /\ result'.op = "registerUser"
        /\ \E i \in 1..Len(users') :
              \/ users'[i].username = result'.input.username
              \/ users'[i].email = result'.input.email)
       => \/ /\ result'.error = ""
             /\ Len(users') = Len(users) + 1
             /\ result'.user = users'[Len(users')]
             /\ result'.token # NoToken
          \/ /\ result'.error \in {"Username already exists",
                                   "Email already exists"}
             /\ users' = users]_vars

-----------------------------------------------------------------------------
(* C29: in every state reachable through createChatRoom, the states        *)
(* between its two inserts included, every room has its creator among its  *)
(* members.                                                                *)

C29_CreatorIsMember ==
    \A r \in 1..Len(chat_rooms) :
        Membership(chat_rooms[r].id, chat_rooms[r].created_by) # {}

====
